---------------------------- MODULE Spec2Model ----------------------------
(***************************************************************************)
(* Model of the Data Hub snapshot engine (snapshot.c), its formatter       *)
(* plug-in interface (snapshot.h) and the resource-tree primitives the     *)
(* engine walks.  The event loop is a FIFO of deferred functions           *)
(* (le_event_QueueFunction); every handler is one action.                  *)
(***************************************************************************)
EXTENDS Integers, Sequences, FiniteSets, TLC

\* ------------------------------------------------------------------ bounds
\* Number of query_TakeSnapshot calls a behaviour may contain.
MaxRequests == 2
\* Largest time stamp (last-modified values and `since` range over 0..MaxTime).
MaxTime == 1
\* Passes the plug-in formatter of the general specification asks for at most.
MaxScan == 2
\* Number of query_TrackDeletions calls a behaviour may contain.
MaxTrackCalls == 1
\* Pieces of text the bounded snapshot pipe holds before a write fails.
PipeCap == 2
\* Characters a sample's string value has at most.
MaxChars == 3
\* Largest buffer a conversion is given, in bytes.
MaxSize == 9
\* Calls on the resources a behaviour may contain.
MaxOps == 3

\* ------------------------------------------------------- program constants
MAX_PASSES == 10
SNAPSHOT_FILTER_CREATED == 1
SNAPSHOT_FILTER_DELETED == 2
SNAPSHOT_FILTER_NORMAL == 4

NULL == "NULL"

\* Walker states (SnapshotState_t).
STATE_NODE_BEGIN == "NodeBegin"
STATE_NODE_CHILDREN == "NodeChildren"
STATE_NODE_END == "NodeEnd"
STATE_NODE_SIBLING == "NodeSibling"
STATE_TREE_END == "TreeEnd"

\* f & b # 0 for a single-bit mask b.
HasBit(f, b) == (f \div b) % 2 = 1

AllFilters == 0..7

\* Filter bitmasks of the JSON formatter.
LIVE_FILTERS == SNAPSHOT_FILTER_CREATED + SNAPSHOT_FILTER_NORMAL
ALL_FILTERS == LIVE_FILTERS + SNAPSHOT_FILTER_DELETED

\* f & mask # 0
HasAny(f, mask) ==
    \E b \in {SNAPSHOT_FILTER_CREATED, SNAPSHOT_FILTER_DELETED,
              SNAPSHOT_FILTER_NORMAL} : HasBit(f, b) /\ HasBit(mask, b)

Times == 0..MaxTime

\* --------------------------------------------------------- resource tree
\* The tree's shape: /a, /a/c and /b under the root, children in insertion
\* order.  Entries leave the tree when their reference count drops to zero.
Entries == {"root", "a", "b", "c"}

ParentOf == [e \in Entries |->
               CASE e = "root" -> NULL
                 [] e = "a" -> "root"
                 [] e = "b" -> "root"
                 [] e = "c" -> "a"]

ChildOrder == [e \in Entries |->
                 CASE e = "root" -> <<"a", "b">>
                   [] e = "a" -> <<"c">>
                   [] OTHER -> <<>>]

\* Absolute paths a request may name; "/x" resolves to nothing.
Paths == {"/", "/a", "/x"}

PathEntry(p) == CASE p = "/" -> "root" [] p = "/a" -> "a" [] OTHER -> NULL

IndexOf(s, x) == CHOOSE i \in 1..Len(s) : s[i] = x

\* Children of e still linked into the tree, in insertion order.
LinkedChildren(t, e, withZombies) ==
    SelectSeq(ChildOrder[e],
              LAMBDA c : t[c].present /\ (withZombies \/ ~t[c].deleted))

resTree_GetFirstChildEx(t, e, withZombies) ==
    LET cs == LinkedChildren(t, e, withZombies)
    IN  IF cs = <<>> THEN NULL ELSE Head(cs)

resTree_GetNextSiblingEx(t, e, withZombies) ==
    IF ParentOf[e] = NULL \/ ~t[e].present
    THEN NULL
    ELSE LET all == ChildOrder[ParentOf[e]]
             rest == SubSeq(all, IndexOf(all, e) + 1, Len(all))
             cs == SelectSeq(rest,
                     LAMBDA c : t[c].present /\ (withZombies \/ ~t[c].deleted))
         IN  IF cs = <<>> THEN NULL ELSE Head(cs)

\* find(path): the live entry at the path, or none.
resTree_FindEntryAtAbsolutePath(t, p) ==
    LET e == PathEntry(p)
    IN  IF e # NULL /\ t[e].present /\ ~t[e].deleted THEN e ELSE NULL

\* e and every entry linked below it (deleted ones included).
RECURSIVE Subtree(_, _)
Subtree(t, e) ==
    {e} \cup UNION {Subtree(t, c) : c \in {x \in Entries :
                                 ParentOf[x] = e /\ t[x].present}}

\* le_mem_Release on an entry: drop one reference; at zero the entry is
\* destroyed, unlinked from its parent, and its reference on the parent
\* is released in turn.
RECURSIVE MemRelease(_, _)
MemRelease(t, e) ==
    IF ~t[e].present THEN t
    ELSE IF t[e].refs > 1 THEN [t EXCEPT ![e].refs = @ - 1]
    ELSE LET t1 == [t EXCEPT ![e].refs = 0, ![e].present = FALSE]
         IN  IF ParentOf[e] # NULL /\ t[ParentOf[e]].present
             THEN MemRelease(t1, ParentOf[e])
             ELSE t1

resTree_ClearNewness(t, e) == [t EXCEPT ![e].new = FALSE]

\* Entry types and data types of the entries: / and /a are namespaces, /b
\* is a numeric input and /a/c a string input, each with a current value.
EntryType == [e \in Entries |->
                IF e \in {"root", "a"} THEN "ADMIN_ENTRY_TYPE_NAMESPACE"
                ELSE "ADMIN_ENTRY_TYPE_INPUT"]

DataType == [e \in Entries |->
               IF e = "b" THEN "IO_DATA_TYPE_NUMERIC" ELSE "IO_DATA_TYPE_STRING"]

resTree_GetEntryName(e) == e

resTree_GetPath(e) ==
    CASE e = "root" -> "/" [] e = "a" -> "/a" [] e = "b" -> "/b"
      [] e = "c" -> "/a/c"

\* ----------------------------------------------------------- relevance
\* snapshot_IsTimely
snapshot_IsTimely(t, e, since) == t[e].lastMod > since

\* The relevance of a node on its own merit (UpdateRelevance, first half).
OwnMerit(t, e, filter, root, since) ==
    IF e = root THEN TRUE
    ELSE IF HasBit(filter, SNAPSHOT_FILTER_CREATED) /\ t[e].new THEN TRUE
    ELSE IF HasBit(filter, SNAPSHOT_FILTER_DELETED) /\ t[e].deleted THEN TRUE
    ELSE IF HasBit(filter, SNAPSHOT_FILTER_CREATED)
            \/ HasBit(filter, SNAPSHOT_FILTER_NORMAL)
         THEN snapshot_IsTimely(t, e, since)
    ELSE FALSE

\* The flag UpdateRelevance stores on e: own merit, or a relevant child.
RECURSIVE Relevance(_, _, _, _, _)
Relevance(t, e, filter, root, since) ==
    \/ OwnMerit(t, e, filter, root, since)
    \/ \E c \in Entries : /\ ParentOf[c] = e
                          /\ t[c].present
                          /\ Relevance(t, c, filter, root, since)

\* UpdateRelevance(root, filter): every entry of the subtree gets its flag;
\* entries outside the subtree keep whatever flag they had.
UpdateRelevance(t, root, filter, since) ==
    [e \in Entries |->
        IF e \in Subtree(t, root)
        THEN [t[e] EXCEPT !.relevant = Relevance(t, e, filter, root, since)]
        ELSE t[e]]


\* ------------------------------------------------------------------ state
VARIABLES
    IsRunning,      \* static bool IsRunning
    Snapshot,       \* static Snapshot_t Snapshot
    Parents,        \* stack of node parent references (top first)
    tree,           \* per entry: present, refs, new, deleted, relevant, lastMod
    formatter,      \* the formatter instance: scan, filter and its own fields
    queue,          \* the event loop's FIFO of deferred functions
    updatePaused,   \* the tree's update-paused state (start_update/end_update)
    fds,            \* which ends of the snapshot pipe the engine holds open
    crashed,        \* "none", or why the process died
    harness,        \* what the clients and the plug-in formatter of a
                    \* specification do: requests, passes, filters, failures
    written,        \* what has been written into the current pipe, in order
    calls,          \* formatter callbacks of the current pass, in order
    pass,           \* the tree and the filter the current pass started with,
                    \* the filters of the snapshot's passes so far, and the
                    \* tree the snapshot started with
    delivered,      \* completion callbacks invoked so far
    requests,       \* query_TakeSnapshot calls so far, with their out-parameter
    ends,           \* snapshot_End calls so far
    counts,         \* call counters of start_update, end_update, close, ...
    AreDeletionsTracked,    \* static bool AreDeletionsTracked
    resources,      \* the entries that have a Resource attached
    pipe,           \* the snapshot pipe: pieces written and not yet read,
                    \* and whether its read end is still open
    sample,         \* a Data Sample, the build's char signedness, and the
                    \* last dataSample_ call made on it with its results
    hub             \* the resources at the paths of the tree with their
                    \* routes and admin settings, the notifications of the
                    \* tree-change handler, and the last call with its result

vars == <<IsRunning, Snapshot, Parents, tree, formatter, queue, updatePaused,
          fds, crashed, harness, written, calls, pass, delivered, requests,
          ends, counts, AreDeletionsTracked, resources, pipe, sample,
          hub>>

\* The whole state as one record, so that a handler is a function from the
\* state before it to the state after it.
Cur == [run |-> IsRunning, snap |-> Snapshot, parents |-> Parents,
        tree |-> tree, fmt |-> formatter, queue |-> queue,
        paused |-> updatePaused, fds |-> fds, crashed |-> crashed,
        harness |-> harness, written |-> written, calls |-> calls,
        pass |-> pass,
        delivered |-> delivered,
        requests |-> requests, ends |-> ends, counts |-> counts,
        tracked |-> AreDeletionsTracked, resources |-> resources,
        pipe |-> pipe, sample |-> sample, hub |-> hub]

Set(st) ==
    /\ IsRunning' = st.run
    /\ Snapshot' = st.snap
    /\ Parents' = st.parents
    /\ tree' = st.tree
    /\ formatter' = st.fmt
    /\ queue' = st.queue
    /\ updatePaused' = st.paused
    /\ fds' = st.fds
    /\ crashed' = st.crashed
    /\ harness' = st.harness
    /\ written' = st.written
    /\ calls' = st.calls
    /\ pass' = st.pass
    /\ delivered' = st.delivered
    /\ requests' = st.requests
    /\ ends' = st.ends
    /\ counts' = st.counts
    /\ AreDeletionsTracked' = st.tracked
    /\ resources' = st.resources
    /\ pipe' = st.pipe
    /\ sample' = st.sample
    /\ hub' = st.hub

\* No Data Sample is being converted (the snapshot specifications).
NoSample == [type |-> "none"]

\* No resource operation is observed (the snapshot specifications).
NoHub == [ops |-> 0]

\* memset(&Snapshot, 0, sizeof(Snapshot)); also the static initial value.
ZeroSnapshot ==
    [sink |-> 0, source |-> 0, flush |-> FALSE, since |-> 0,
     formatter |-> NULL, passes |-> 0, callback |-> NULL, context |-> 0,
     nextState |-> STATE_NODE_BEGIN, nodeRef |-> NULL, rootRef |-> NULL]

\* Internal states of the JSON formatter (JsonFormatterState_t).
STATE_START == "Start"
STATE_SNAPSHOT_STEP == "SnapshotStep"
STATE_NODE_NAME == "NodeName"
STATE_NODE_OPEN == "NodeOpen"
STATE_NODE_VALUES == "NodeValues"
STATE_NODE_VALUE_BODY == "NodeValueBody"

\* The formatter instance: the base type's scan and filter, and the JSON
\* formatter's own fields.  The buffer holds the pieces of text put into it;
\* next and available count pieces.  monitor is "none", "live" or
\* "deleted"; pollout says whether the monitor has POLLOUT enabled.
NoFormatter ==
    [kind |-> NULL, scan |-> FALSE, filter |-> 0, buffer |-> <<>>,
     next |-> 0, available |-> 0, needsComma |-> FALSE, isRoot |-> FALSE,
     nextState |-> STATE_START, monitor |-> "none", pollout |-> FALSE]

\* File descriptors of the pipe's two ends, as InitPipe hands them out.
SINK_FD == 4
SOURCE_FD == 3

\* A process-fatal outcome: a failed LE_ASSERT or a NULL dereference.
Crash(st, why) == [st EXCEPT !.crashed = why]

\* ------------------------------------------------- resource tree updates
resTree_StartUpdate(st) ==
    [st EXCEPT !.paused = TRUE, !.counts.startUpdate = @ + 1]

resTree_EndUpdate(st) ==
    [st EXCEPT !.paused = FALSE, !.counts.endUpdate = @ + 1]

\* ------------------------------------------------------------ engine core
\* snapshot_Step: queue the handler of Snapshot.nextState.
snapshot_Step(st) ==
    [st EXCEPT !.queue = Append(@, [fn |-> st.snap.nextState, arg |-> "-",
                                    req |-> st.counts.current])]

\* ---------------------------------------------------------- JSON formatter
\* The text StartTree formats for a pass over live entries; T stands for
\* the snapshot's time stamp.
HeaderText(e) ==
    CASE resTree_GetPath(e) = "/" -> "{\"ts\":T,\"root\":\"/\",\"upserted\":"
      [] resTree_GetPath(e) = "/a" -> "{\"ts\":T,\"root\":\"/a\",\"upserted\":"
      [] resTree_GetPath(e) = "/b" -> "{\"ts\":T,\"root\":\"/b\",\"upserted\":"
      [] OTHER -> "{\"ts\":T,\"root\":\"/a/c\",\"upserted\":"

\* The members NodeValues formats, piece by piece.  "%u" prints the data
\* type's number; S stands for the sample's time stamp and M for the
\* mandatory flag; Bool2Str prints the new flag.
TypeText(dataType) ==
    CASE dataType = "IO_DATA_TYPE_TRIGGER" -> "\"type\":0"
      [] dataType = "IO_DATA_TYPE_BOOLEAN" -> "\"type\":1"
      [] dataType = "IO_DATA_TYPE_NUMERIC" -> "\"type\":2"
      [] dataType = "IO_DATA_TYPE_STRING" -> "\"type\":3"
      [] dataType = "IO_DATA_TYPE_JSON" -> "\"type\":4"

TS_TEXT == "\"ts\":S"

MANDATORY_TEXT == "\"mandatory\":M"

Bool2Str(value) == IF value THEN "true" ELSE "false"

NewText(isNew) ==
    IF Bool2Str(isNew) = "true" THEN "\"new\":true" ELSE "\"new\":false"

ValuesText(dataType, isNew) ==
    <<TypeText(dataType), ",", TS_TEXT, ",", MANDATORY_TEXT, ",",
      NewText(isNew)>>

\* A value as dataSample_ConvertToJson renders it.
VALUE_TEXT == "V"

\* EnableSend: enable POLLOUT on the monitor and queue an explicit send.
\* A deleted monitor reference is fatal in le_fdMonitor_Enable.
EnableSend(st) ==
    IF st.fmt.monitor # "live" THEN Crash(st, "invalid monitor")
    ELSE [st EXCEPT !.fmt.pollout = TRUE,
                    !.queue = Append(@, [fn |-> "ExplicitSendHandler",
                                         arg |-> "-",
                                         req |-> st.counts.current])]

\* AppendString
AppendString(st, prependComma, str) ==
    LET buf == st.fmt.buffer \o (IF prependComma THEN <<",">> ELSE <<>>)
                   \o <<str>>
    IN  EnableSend([st EXCEPT !.fmt.buffer = buf, !.fmt.available = Len(buf)])

\* BufferString
BufferString(st, prependComma, str) ==
    IF st.fmt.next # 0 \/ st.fmt.available # 0
    THEN Crash(st, "assertion failed")
    ELSE AppendString([st EXCEPT !.fmt.buffer = <<>>], prependComma, str)

\* BufferFormatted: available is vsnprintf's result, which does not count a
\* prepended comma.
BufferFormatted(st, prependComma, strs) ==
    IF st.fmt.next # 0 \/ st.fmt.available # 0
    THEN Crash(st, "assertion failed")
    ELSE LET buf == (IF prependComma THEN <<",">> ELSE <<>>) \o strs
         IN  EnableSend([st EXCEPT !.fmt.buffer = buf,
                                   !.fmt.available = Len(strs)])

\* snapshot_GetNode asserts a running snapshot and a current node.
snapshot_GetNodeFails(st) == ~st.run \/ st.snap.nodeRef = NULL

\* NodeName
NodeName(st) ==
    IF snapshot_GetNodeFails(st) \/ ~HasAny(st.fmt.filter, ALL_FILTERS)
    THEN Crash(st, "assertion failed")
    ELSE LET s1 == BufferString(st, FALSE,
                                resTree_GetEntryName(st.snap.nodeRef))
         IN  [s1 EXCEPT !.fmt.needsComma = FALSE,
                        !.fmt.nextState = STATE_NODE_OPEN]

\* NodeOpen
NodeOpen(st) ==
    IF snapshot_GetNodeFails(st) \/ ~HasAny(st.fmt.filter, ALL_FILTERS)
    THEN Crash(st, "assertion failed")
    ELSE LET node == st.snap.nodeRef
             s1 == BufferFormatted(st, FALSE,
                                   IF st.fmt.isRoot THEN <<"{">>
                                   ELSE <<"\":{">>)
             values == /\ EntryType[node] # "ADMIN_ENTRY_TYPE_NAMESPACE"
                       /\ HasAny(st.fmt.filter, LIVE_FILTERS)
                       /\ snapshot_IsTimely(st.tree, node, st.snap.since)
         IN  [s1 EXCEPT !.fmt.isRoot = FALSE,
                        !.fmt.needsComma = FALSE,
                        !.fmt.nextState = IF values THEN STATE_NODE_VALUES
                                          ELSE STATE_SNAPSHOT_STEP]

\* resTree_GetCurrentValue: NULL for a resource that has no value yet.
resTree_GetCurrentValue(st, e) ==
    IF e \in st.harness.valued THEN "sample" ELSE NULL

resTree_GetDataType(st, e) == st.harness.types[e]

resTree_IsNew(st, e) == st.tree[e].new

\* dataSample_GetTimestamp(resTree_GetCurrentValue(e)) where the current
\* values are followed (sample.type = "live"): a sample is known by its
\* time stamp.
CurrentTimestamp(st, e) == st.sample.ts[e]

\* Which sample a formatter step has read for the current node.
Seen(st, step) ==
    IF st.sample.type # "live" THEN st
    ELSE [st EXCEPT !.sample.seen =
             Append(@, [step |-> step, node |-> st.snap.nodeRef,
                        ts |-> CurrentTimestamp(st, st.snap.nodeRef)])]

\* NodeValues
NodeValues(st) ==
    IF snapshot_GetNodeFails(st) \/ ~HasAny(st.fmt.filter, LIVE_FILTERS)
       \/ resTree_GetCurrentValue(st, st.snap.nodeRef) = NULL
    THEN Crash(st, "assertion failed")
    ELSE LET dataType == resTree_GetDataType(st, st.snap.nodeRef)
             s1 == [BufferFormatted(Seen(st, "NodeValues"), FALSE,
                        ValuesText(dataType,
                                   resTree_IsNew(st, st.snap.nodeRef)))
                    EXCEPT !.fmt.needsComma = TRUE]
             s2 == AppendString(s1, TRUE, "\"value\":")
         IN  CASE dataType = "IO_DATA_TYPE_TRIGGER" ->
                    [s1 EXCEPT !.fmt.nextState = STATE_SNAPSHOT_STEP]
               [] dataType \in {"IO_DATA_TYPE_BOOLEAN",
                                "IO_DATA_TYPE_NUMERIC"} ->
                    [AppendString(s2, FALSE, VALUE_TEXT) EXCEPT
                        !.fmt.nextState = STATE_SNAPSHOT_STEP]
               [] OTHER ->
                    [s2 EXCEPT !.fmt.needsComma = FALSE,
                               !.fmt.nextState = STATE_NODE_VALUE_BODY]

\* What dataSample_ConvertToJson puts into the buffer for the current value
\* of e: a String always comes with its two quotation marks, a JSON value
\* is copied as it is, so that a JSON value whose text is empty (where the
\* current values are followed, the entries of sample.empty) leaves the
\* buffer empty.
CurrentText(st, e) ==
    IF /\ st.sample.type = "live"
       /\ e \in st.sample.empty
       /\ resTree_GetDataType(st, e) = "IO_DATA_TYPE_JSON"
    THEN <<>>
    ELSE <<VALUE_TEXT>>

\* NodeValueBody: the value is converted straight into the buffer, and
\* available is its strlen.
NodeValueBody(st) ==
    IF snapshot_GetNodeFails(st) \/ ~HasAny(st.fmt.filter, LIVE_FILTERS)
       \/ st.fmt.needsComma
       \/ resTree_GetCurrentValue(st, st.snap.nodeRef) = NULL
    THEN Crash(st, "assertion failed")
    ELSE EnableSend([Seen(st, "NodeValueBody") EXCEPT
                               !.fmt.buffer = CurrentText(st, st.snap.nodeRef),
                               !.fmt.available =
                                   Len(CurrentText(st, st.snap.nodeRef)),
                               !.fmt.needsComma = TRUE,
                               !.fmt.nextState = STATE_SNAPSHOT_STEP])

\* SnapshotStep
SnapshotStep(st) == snapshot_Step(st)

\* Step: run the function of the formatter's next state.
Step(st) ==
    CASE st.fmt.nextState = STATE_START -> st
      [] st.fmt.nextState = STATE_SNAPSHOT_STEP -> SnapshotStep(st)
      [] st.fmt.nextState = STATE_NODE_NAME -> NodeName(st)
      [] st.fmt.nextState = STATE_NODE_OPEN -> NodeOpen(st)
      [] st.fmt.nextState = STATE_NODE_VALUES -> NodeValues(st)
      [] st.fmt.nextState = STATE_NODE_VALUE_BODY -> NodeValueBody(st)

\* StartTree
StartTree(st) ==
    IF ~HasAny(st.fmt.filter, ALL_FILTERS) THEN Crash(st, "assertion failed")
    ELSE LET s1 == IF HasAny(st.fmt.filter, LIVE_FILTERS)
                   THEN IF snapshot_GetNodeFails(st)
                        THEN Crash(st, "assertion failed")
                        ELSE BufferFormatted(st, FALSE,
                                             <<HeaderText(st.snap.nodeRef)>>)
                   ELSE BufferString(st, TRUE, "\"deleted\":")
         IN  [s1 EXCEPT !.fmt.isRoot = TRUE,
                        !.fmt.nextState = STATE_SNAPSHOT_STEP]

\* BeginNode
BeginNode(st) ==
    IF ~HasAny(st.fmt.filter, ALL_FILTERS) THEN Crash(st, "assertion failed")
    ELSE IF st.fmt.isRoot
    THEN Step([st EXCEPT !.fmt.nextState = STATE_NODE_OPEN,
                         !.fmt.needsComma = FALSE])
    ELSE [BufferString(st, st.fmt.needsComma, "\"") EXCEPT
             !.fmt.isRoot = FALSE,
             !.fmt.nextState = STATE_NODE_NAME]

\* EndObject
EndObject(st) ==
    IF ~HasAny(st.fmt.filter, ALL_FILTERS) THEN Crash(st, "assertion failed")
    ELSE [BufferString(st, FALSE, "}") EXCEPT
             !.fmt.needsComma = TRUE,
             !.fmt.nextState = STATE_SNAPSHOT_STEP]

\* EndTree
EndTree(st) ==
    IF ~HasAny(st.fmt.filter, ALL_FILTERS) THEN Crash(st, "assertion failed")
    ELSE LET scan == HasAny(st.fmt.filter, LIVE_FILTERS)
             s1 == [st EXCEPT !.fmt.nextState = STATE_SNAPSHOT_STEP,
                              !.fmt.scan = scan]
         IN  IF scan
             THEN Step([s1 EXCEPT !.fmt.filter = SNAPSHOT_FILTER_DELETED,
                                  !.fmt.needsComma = TRUE])
             ELSE [BufferString(s1, FALSE, "}") EXCEPT
                      !.fmt.needsComma = FALSE]

\* Close: le_fdMonitor_Delete; an already deleted reference is fatal.
Close(st) ==
    IF st.fmt.monitor # "live" THEN Crash(st, "invalid monitor")
    ELSE [st EXCEPT !.fmt.monitor = "deleted", !.fmt.pollout = FALSE]

\* GetJsonSnapshotFormatter: reset the one static instance and create its
\* monitor on the stream, with POLLOUT disabled.
GetJsonSnapshotFormatter(st) ==
    [st EXCEPT !.fmt = [NoFormatter EXCEPT !.kind = "json",
                                           !.isRoot = TRUE,
                                           !.filter = LIVE_FILTERS,
                                           !.scan = TRUE,
                                           !.monitor = "live"],
               !.snap.formatter = "json"]

\* The plug-in formatter's close callback.
PluginClose(st) == [st EXCEPT !.fmt.kind = NULL]

FormatterClose(st) ==
    LET s1 == [st EXCEPT !.counts.close = @ + 1]
    IN  IF st.snap.formatter = "json" THEN Close(s1) ELSE PluginClose(s1)

\* snapshot_End as it would be if it left the pipe's read end open.
snapshot_EndLeakingSource(st, status) ==
    LET s1 == IF st.snap.formatter # NULL
              THEN [FormatterClose(st) EXCEPT !.snap.formatter = NULL]
              ELSE st
        s2 == IF s1.snap.sink >= 0
              THEN [s1 EXCEPT !.fds.sink = FALSE] ELSE s1
        s4 == resTree_EndUpdate(s2)
    IN  [s4 EXCEPT
            !.run = FALSE,
            !.queue = Append(@, [fn |-> "InvokeResultCallback",
                                 arg |-> status, req |-> st.counts.current]),
            !.ends = Append(@, [req |-> st.counts.current, status |-> status,
                                passes |-> st.snap.passes,
                                starts |-> st.counts.startTree,
                                scan |-> st.fmt.scan,
                                hadFormatter |-> st.snap.formatter # NULL])]

\* snapshot_End as it would be if it did not resume tree updates.
snapshot_EndWithoutResume(st, status) ==
    LET s1 == IF st.snap.formatter # NULL
              THEN [FormatterClose(st) EXCEPT !.snap.formatter = NULL]
              ELSE st
        s2 == IF s1.snap.sink >= 0
              THEN [s1 EXCEPT !.fds.sink = FALSE] ELSE s1
        s3 == IF s2.snap.source >= 0
              THEN [s2 EXCEPT !.fds.source = FALSE] ELSE s2
    IN  [s3 EXCEPT
            !.run = FALSE,
            !.queue = Append(@, [fn |-> "InvokeResultCallback",
                                 arg |-> status, req |-> st.counts.current]),
            !.ends = Append(@, [req |-> st.counts.current, status |-> status,
                                passes |-> st.snap.passes,
                                starts |-> st.counts.startTree,
                                scan |-> st.fmt.scan,
                                hadFormatter |-> st.snap.formatter # NULL])]

\* snapshot_End(status)
snapshot_End(st, status) ==
    LET s1 == IF st.snap.formatter # NULL
              THEN [FormatterClose(st) EXCEPT !.snap.formatter = NULL]
              ELSE st
        s2 == IF s1.snap.sink >= 0
              THEN [s1 EXCEPT !.fds.sink = FALSE] ELSE s1
        s3 == IF s2.snap.source >= 0
              THEN [s2 EXCEPT !.fds.source = FALSE] ELSE s2
        s4 == resTree_EndUpdate(s3)
    IN  [s4 EXCEPT
            !.run = FALSE,
            !.queue = Append(@, [fn |-> "InvokeResultCallback",
                                 arg |-> status, req |-> st.counts.current]),
            !.ends = Append(@, [req |-> st.counts.current, status |-> status,
                                passes |-> st.snap.passes,
                                starts |-> st.counts.startTree,
                                scan |-> st.fmt.scan,
                                hadFormatter |-> st.snap.formatter # NULL])]

\* What a plug-in formatter does in a callback: it notes the call, then
\* either steps the walker or, on an I/O error, ends the snapshot.
\* r.out is "step", "closed" or "fault".
PluginDone(st, r) ==
    CASE r.out = "step" -> snapshot_Step(st)
      [] r.out = "closed" -> snapshot_End(st, "LE_CLOSED")
      [] r.out = "fault" -> snapshot_End(st, "LE_FAULT")

Note(st, op) ==
    [st EXCEPT !.calls = Append(@, [op |-> op, node |-> st.snap.nodeRef])]

PluginStartTree(st, r) == PluginDone(st, r)

PluginBeginNode(st, r) == PluginDone(st, r)

PluginEndNode(st, r) == PluginDone(st, r)

\* end_tree: the formatter says whether it wants another pass, and with
\* which filter.
PluginEndTree(st, r) ==
    LET s1 == [st EXCEPT
                  !.fmt.scan = (r.scan /\ st.snap.passes < st.harness.passes),
                  !.fmt.filter = IF r.scan THEN r.filter ELSE @]
    IN  PluginDone(s1, r)

\* Snapshot.formatter->startTree(...) and the other callbacks.
FormatterStartTree(st, r) ==
    LET s1 == Note(st, "start_tree")
    IN  IF st.snap.formatter = "json" THEN StartTree(s1)
        ELSE PluginStartTree(s1, r)

FormatterBeginNode(st, r) ==
    LET s1 == Note(st, "begin_node")
    IN  IF st.snap.formatter = "json" THEN BeginNode(s1)
        ELSE PluginBeginNode(s1, r)

FormatterEndNode(st, r) ==
    LET s1 == Note(st, "end_node")
    IN  IF st.snap.formatter = "json" THEN EndObject(s1)
        ELSE PluginEndNode(s1, r)

FormatterEndTree(st, r) ==
    LET s1 == Note(st, "end_tree")
    IN  IF st.snap.formatter = "json" THEN EndTree(s1)
        ELSE PluginEndTree(s1, r)

\* SendData: count is what le_fd_Write returns.  The result is the state
\* after it and the status: -1 on error, 0 if all was sent, 1 otherwise.
\* A drained buffer is never read again before it is overwritten, so it
\* is emptied here.
SendData(st, count) ==
    LET f == st.fmt IN
    IF f.available = 0 THEN [st |-> st, status |-> 1]
    ELSE IF count < 0 THEN [st |-> st, status |-> -1]
    ELSE IF count < f.available
    THEN [st |-> [st EXCEPT
                     !.written = @ \o SubSeq(f.buffer, f.next + 1,
                                             f.next + count),
                     !.pipe.len = IF st.harness.cap > 0 THEN @ + count ELSE @,
                     !.fmt.next = @ + count,
                     !.fmt.available = @ - count],
          status |-> 1]
    ELSE [st |-> [st EXCEPT
                     !.written = @ \o SubSeq(f.buffer, f.next + 1,
                                             f.next + f.available),
                     !.pipe.len = IF st.harness.cap > 0 THEN @ + f.available
                                  ELSE @,
                     !.fmt.buffer = <<>>,
                     !.fmt.next = 0,
                     !.fmt.available = 0,
                     !.fmt.pollout = FALSE],
          status |-> 0]

\* HandleEvents
HandleEvents(st, events, count) ==
    LET sent == SendData(st, count)
        s1 == IF "POLLOUT" \in events THEN sent.st ELSE st
    IN  IF "POLLOUT" \in events /\ sent.status < 0
        THEN snapshot_End(s1, "LE_CLOSED")
        ELSE IF "POLLOUT" \in events /\ sent.status = 0
        THEN Step(s1)
        ELSE IF "POLLHUP" \in events
        THEN snapshot_End(s1, "LE_CLOSED")
        ELSE IF events \ {"POLLOUT"} # {}
        THEN snapshot_End(s1, "LE_FAULT")
        ELSE s1

\* StreamHandler
StreamHandlerStep(st, events, count) == HandleEvents(st, events, count)

\* ExplicitSendHandler: le_fdMonitor_GetFd is fatal on a deleted monitor.
ExplicitSendHandlerStep(st, count) ==
    IF st.fmt.monitor # "live" THEN Crash(st, "invalid monitor")
    ELSE HandleEvents(st, {"POLLOUT"}, count)

\* StartPass
StartPass(st, r) ==
    LET s1 == [st EXCEPT
                  !.snap.nextState = STATE_NODE_BEGIN,
                  !.snap.nodeRef = st.snap.rootRef,
                  !.tree = UpdateRelevance(st.tree, st.snap.rootRef,
                                           st.fmt.filter, st.snap.since),
                  !.calls = <<>>,
                  !.counts.startTree = @ + 1]
        s2 == FormatterStartTree(
                  [s1 EXCEPT !.pass = [tree |-> s1.tree,
                                       filter |-> s1.fmt.filter,
                                       filters |-> Append(@.filters,
                                                          s1.fmt.filter),
                                       start |-> @.start]],
                  r)
    IN  [s2 EXCEPT !.snap.passes = @ + 1]

\* PushParent / PopParent on the stack of parents (top of stack first).
PushParent(st, e) == [st EXCEPT !.parents = <<e>> \o @]

PopParentRef(st) == IF st.parents = <<>> THEN NULL ELSE Head(st.parents)

PopParent(st) ==
    IF st.parents = <<>> THEN st ELSE [st EXCEPT !.parents = Tail(@)]

\* Snapshot.formatter->filter & SNAPSHOT_FILTER_DELETED
WithZombies(st) == HasBit(st.fmt.filter, SNAPSHOT_FILTER_DELETED)

\* NodeBegin as it would be if it looked for children of deleted nodes too.
NodeBeginStepIntoDeleted(st, r) ==
    LET n == st.snap.nodeRef IN
    IF n = NULL THEN Crash(st, "null dereference")
    ELSE IF st.tree[n].relevant
    THEN IF st.snap.formatter = NULL THEN Crash(st, "null dereference")
         ELSE LET childRef ==
                      resTree_GetFirstChildEx(st.tree, n, WithZombies(st))
                  s1 == [st EXCEPT !.snap.nextState =
                            IF childRef = NULL THEN STATE_NODE_END
                            ELSE STATE_NODE_CHILDREN]
              IN  FormatterBeginNode(s1, r)
    ELSE snapshot_Step([st EXCEPT !.snap.nextState = STATE_NODE_END])

\* NodeBegin
NodeBeginStep(st, r) ==
    LET n == st.snap.nodeRef IN
    IF n = NULL THEN Crash(st, "null dereference")
    ELSE IF st.tree[n].relevant
    THEN IF st.snap.formatter = NULL THEN Crash(st, "null dereference")
         ELSE LET childRef ==
                      IF ~st.tree[n].deleted
                      THEN resTree_GetFirstChildEx(st.tree, n, WithZombies(st))
                      ELSE NULL
                  s1 == [st EXCEPT !.snap.nextState =
                            IF childRef = NULL THEN STATE_NODE_END
                            ELSE STATE_NODE_CHILDREN]
              IN  FormatterBeginNode(s1, r)
    ELSE snapshot_Step([st EXCEPT !.snap.nextState = STATE_NODE_END])

\* NodeChildren
NodeChildrenStep(st) ==
    LET n == st.snap.nodeRef IN
    IF n = NULL \/ st.snap.formatter = NULL THEN Crash(st, "null dereference")
    ELSE LET child == resTree_GetFirstChildEx(st.tree, n, WithZombies(st))
             s1 == [PushParent(st, n) EXCEPT !.snap.nodeRef = child]
         IN  IF child = NULL THEN Crash(s1, "assertion failed")
             ELSE snapshot_Step([s1 EXCEPT
                                    !.snap.nextState = STATE_NODE_BEGIN])

\* NodeEnd
NodeEndStep(st, r) ==
    LET n == st.snap.nodeRef
        s1 == [st EXCEPT !.snap.nextState = STATE_NODE_SIBLING]
    IN
    IF n = NULL THEN Crash(st, "null dereference")
    ELSE IF st.tree[n].relevant
    THEN IF st.snap.formatter = NULL THEN Crash(s1, "null dereference")
         ELSE LET s2 == FormatterEndNode(s1, r)
              IN  [s2 EXCEPT !.tree = resTree_ClearNewness(@, s2.snap.nodeRef)]
    ELSE snapshot_Step(s1)

\* NodeSibling as it would be if, back at the parent, it went on to the
\* parent's sibling without ending the parent.
NodeSiblingStepSkippingEnd(st, r) ==
    LET nodeRef == st.snap.nodeRef IN
    IF nodeRef = NULL \/ st.snap.formatter = NULL
    THEN Crash(st, "null dereference")
    ELSE
    LET next == resTree_GetNextSiblingEx(st.tree, nodeRef, WithZombies(st))
        s1 == [st EXCEPT
                  !.snap.nodeRef = next,
                  !.tree = IF st.snap.flush /\ st.tree[nodeRef].deleted
                           THEN MemRelease(@, nodeRef) ELSE @]
    IN  IF next = NULL
        THEN LET s2 == [PopParent(s1) EXCEPT
                           !.snap.nodeRef = PopParentRef(s1)]
             IN  IF s2.snap.nodeRef = NULL
                 THEN FormatterEndTree(
                          [s2 EXCEPT !.snap.nextState = STATE_TREE_END], r)
                 ELSE snapshot_Step(
                          [s2 EXCEPT !.snap.nextState = STATE_NODE_SIBLING])
        ELSE snapshot_Step([s1 EXCEPT !.snap.nextState = STATE_NODE_BEGIN])

\* NodeSibling
NodeSiblingStep(st, r) ==
    LET nodeRef == st.snap.nodeRef IN
    IF nodeRef = NULL \/ st.snap.formatter = NULL
    THEN Crash(st, "null dereference")
    ELSE
    LET next == resTree_GetNextSiblingEx(st.tree, nodeRef, WithZombies(st))
        s1 == [st EXCEPT
                  !.snap.nodeRef = next,
                  !.tree = IF st.snap.flush /\ st.tree[nodeRef].deleted
                           THEN MemRelease(@, nodeRef) ELSE @]
    IN  IF next = NULL
        THEN LET s2 == [PopParent(s1) EXCEPT
                           !.snap.nodeRef = PopParentRef(s1)]
             IN  IF s2.snap.nodeRef = NULL
                 THEN FormatterEndTree(
                          [s2 EXCEPT !.snap.nextState = STATE_TREE_END], r)
                 ELSE snapshot_Step(
                          [s2 EXCEPT !.snap.nextState = STATE_NODE_END])
        ELSE snapshot_Step([s1 EXCEPT !.snap.nextState = STATE_NODE_BEGIN])

\* TreeEnd as it would be if its limit let one more pass through.
TreeEndStepOnePassMore(st, r) ==
    IF PopParentRef(st) # NULL THEN Crash(PopParent(st), "assertion failed")
    ELSE IF st.snap.formatter = NULL THEN Crash(st, "null dereference")
    ELSE IF st.fmt.scan /\ st.snap.passes <= MAX_PASSES THEN StartPass(st, r)
    ELSE IF st.snap.passes >= MAX_PASSES
         THEN snapshot_End(st, "LE_OUT_OF_RANGE")
    ELSE snapshot_End(st, "LE_OK")

\* TreeEnd
TreeEndStep(st, r) ==
    IF PopParentRef(st) # NULL THEN Crash(PopParent(st), "assertion failed")
    ELSE IF st.snap.formatter = NULL THEN Crash(st, "null dereference")
    ELSE IF st.fmt.scan /\ st.snap.passes < MAX_PASSES THEN StartPass(st, r)
    ELSE IF st.snap.passes >= MAX_PASSES
         THEN snapshot_End(st, "LE_OUT_OF_RANGE")
    ELSE snapshot_End(st, "LE_OK")

\* ------------------------------------------------------ deletion tracking
\* snapshot_RecordNodeDeletion: le_mem_AddRef and resTree_SetDeleted while
\* deletions are tracked, nothing otherwise.
snapshot_RecordNodeDeletion(st, e) ==
    IF st.tracked
    THEN [st EXCEPT !.tree[e].refs = @ + 1, !.tree[e].deleted = TRUE]
    ELSE st

\* delete(path) of the resource API: the Resource is detached, the deletion
\* is reported to the snapshot engine, and the entry's own reference is
\* released, which destroys the entry unless a deletion record or a child
\* still holds it.
DeleteResource(st, e) ==
    LET s1 == snapshot_RecordNodeDeletion(st, e)
    IN  [s1 EXCEPT !.tree = MemRelease(@, e), !.resources = @ \ {e}]

\* FlushDeletionRecords(nodeRef): for each child, zombies included, flush
\* beneath it and then release it if it is flagged deleted.  The next
\* sibling is read before the child is handled.
RECURSIVE FlushDeletionRecords(_, _)
RECURSIVE FlushDeletionRecordsFrom(_, _)
FlushDeletionRecordsFrom(t, childRef) ==
    IF childRef = NULL THEN t
    ELSE LET nextRef == resTree_GetNextSiblingEx(t, childRef, TRUE)
             t1 == FlushDeletionRecords(t, childRef)
             t2 == IF t1[childRef].deleted THEN MemRelease(t1, childRef)
                   ELSE t1
         IN  FlushDeletionRecordsFrom(t2, nextRef)

FlushDeletionRecords(t, nodeRef) ==
    FlushDeletionRecordsFrom(t, resTree_GetFirstChildEx(t, nodeRef, TRUE))

\* query_TrackDeletions(on)
query_TrackDeletionsStep(st, on) ==
    LET s1 == [st EXCEPT !.tracked = on, !.counts.track = @ + 1]
    IN  IF ~on
        THEN resTree_EndUpdate(
                 [resTree_StartUpdate(s1) EXCEPT
                     !.tree = FlushDeletionRecords(@, "root")])
        ELSE s1

\* Exit codes of the snapshot tool.
EXIT_SUCCESS == 0
EXIT_FAILURE == 1

\* HandleResult of the dsnap tool, the completion callback it passes to
\* query_TakeSnapshot: what it logs and the code it exits with.
HandleResult(result) ==
    CASE result = "LE_OK" -> [log |-> "LE_INFO", ret |-> EXIT_SUCCESS]
      [] result = "LE_BUSY" -> [log |-> "LE_WARN", ret |-> EXIT_SUCCESS]
      [] OTHER -> [log |-> "LE_ERROR", ret |-> EXIT_FAILURE]

\* InvokeResultCallback; the callback is the tool's HandleResult.
InvokeResultCallbackStep(st, status, req) ==
    IF st.snap.callback # NULL
    THEN [st EXCEPT !.delivered = Append(@, [status |-> status,
                                             context |-> st.snap.context,
                                             req |-> req,
                                             tool |-> HandleResult(status)])]
    ELSE st

\* InitPipe: pipe2() either yields both descriptors or leaves both at -1.
InitPipe(st, pipeOk) ==
    IF pipeOk
    THEN [st EXCEPT !.snap.sink = SINK_FD, !.snap.source = SOURCE_FD,
                    !.fds = [sink |-> TRUE, source |-> TRUE],
                    !.written = <<>>,
                    !.pipe = [len |-> 0, reader |-> TRUE]]
    ELSE [st EXCEPT !.snap.sink = -1, !.snap.source = -1]

\* The formatter a format value selects.  "plugin" stands for a formatter
\* plugged into the fixed list; its first scan and filter are its own choice.
GetPluginSnapshotFormatter(st, in) ==
    [st EXCEPT !.fmt = [NoFormatter EXCEPT !.kind = "plugin",
                                           !.scan = in.scan,
                                           !.filter = in.filter],
               !.snap.formatter = "plugin"]

\* The switch on the format as it would be if every other value selected
\* the JSON formatter.
GetFormatterJsonByDefault(st, in) ==
    CASE in.format = "plugin" -> GetPluginSnapshotFormatter(st, in)
      [] OTHER -> GetJsonSnapshotFormatter(st)

GetFormatter(st, in) ==
    CASE in.format = "QUERY_SNAPSHOT_FORMAT_JSON" ->
            GetJsonSnapshotFormatter(st)
      [] in.format = "plugin" -> GetPluginSnapshotFormatter(st, in)
      [] OTHER -> st

\* query_TakeSnapshot.  in: format, flush, path, since, pipeOk, and the
\* plug-in's first scan and filter; r: what start_tree does.
\* The request's context is its own number.
TakeSnapshot(st, in, r) ==
    LET id == Len(st.requests) + 1
        Out(s, stream) ==
            [s EXCEPT !.requests = Append(@, [context |-> id,
                                              stream |-> stream,
                                              accepted |-> ~st.run,
                                              format |-> in.format,
                                              path |-> in.path,
                                              pipeOk |-> in.pipeOk,
                                              flush |-> in.flush])]
    IN
    IF st.run
    THEN Out([st EXCEPT !.queue = Append(@, [fn |-> "InvokeResultCallback",
                                             arg |-> "LE_BUSY",
                                             req |-> id])], -1)
    ELSE
    LET s1 == resTree_StartUpdate(
                  [st EXCEPT !.run = TRUE, !.counts.current = id,
                             !.counts.startTree = 0, !.calls = <<>>,
                             !.pass.filters = <<>>,
                             !.pass.start = st.tree])
        s2 == InitPipe([s1 EXCEPT !.snap = [ZeroSnapshot EXCEPT
                                               !.callback = "callback",
                                               !.context = id]], in.pipeOk)
        s3 == GetFormatter(s2, in)
        rootRef == resTree_FindEntryAtAbsolutePath(st.tree, in.path)
        s4 == [s3 EXCEPT !.snap.rootRef = rootRef]
        s5 == [s4 EXCEPT !.snap.flush = in.flush, !.snap.since = in.since]
    IN  IF s2.snap.sink < 0 \/ s2.snap.source < 0
        THEN Out(snapshot_End(s2, "LE_CLOSED"), -1)
        ELSE IF s3.snap.formatter = NULL
        THEN Out(snapshot_End(s3, "LE_NOT_IMPLEMENTED"), -1)
        ELSE IF rootRef = NULL
        THEN Out(snapshot_End(s4, "LE_NOT_FOUND"), -1)
        ELSE IF s5.fmt.scan
        THEN Out(StartPass(s5, r), s5.snap.source)
        ELSE Out(snapshot_End(s5, "LE_UNSUPPORTED"), s5.snap.source)

\* ---------------------------------------------------------------- actions
\* What a formatter callback may do: step, or fail with an I/O error.
CallOutcomes ==
    [out : IF harness.fail THEN {"step", "closed", "fault"} ELSE {"step"},
     scan : {FALSE}, filter : {0}]

\* At end_tree the formatter may also ask for another pass with some filter.
EndTreeOutcomes ==
    CallOutcomes \cup [out : {"step"}, scan : {TRUE}, filter : harness.filters]

Alive == crashed = "none"

Next1(fn) == Alive /\ queue # <<>> /\ Head(queue).fn = fn

Popped == [Cur EXCEPT !.queue = Tail(@)]

\* The requests a client may make.  Inputs a request never reads (the
\* plug-in's choices under another format, everything after a failed
\* pipe2) are listed once.
Requests ==
    {in \in [format : harness.formats \cup {"unknown"}, flush : BOOLEAN,
             path : Paths, since : harness.sinces, pipeOk : BOOLEAN,
             scan : BOOLEAN, filter : harness.filters \cup {0}] :
        /\ ~in.pipeOk => in.format = "unknown"
        /\ in.format = "unknown" =>
              ~in.flush /\ in.path = "/" /\ in.since = 0 /\ ~in.scan
        /\ in.format = "QUERY_SNAPSHOT_FORMAT_JSON" =>
              /\ in.scan /\ in.filter = 0
              /\ in.path = "/x" => ~in.flush /\ in.since = 0
        /\ (in.format = "plugin" /\ (~in.scan \/ in.path = "/x")) =>
              in.filter = 0 /\ ~in.flush /\ in.since = 0}

query_TakeSnapshot ==
    /\ Alive
    /\ Len(requests) < harness.requests
    /\ IF IsRunning
       THEN Set(TakeSnapshot(Cur, CHOOSE in \in Requests : TRUE,
                             CHOOSE r \in CallOutcomes : TRUE))
       ELSE \E in \in Requests :
              \E r \in IF in.scan /\ in.format = "plugin" /\ in.pipeOk
                          /\ in.path # "/x"
                       THEN CallOutcomes
                       ELSE {CHOOSE r \in CallOutcomes : TRUE} :
                 Set(TakeSnapshot(Cur, in, r))

NodeBegin ==
    /\ Next1(STATE_NODE_BEGIN)
    /\ \E r \in CallOutcomes : Set(NodeBeginStep(Popped, r))

NodeChildren ==
    /\ Next1(STATE_NODE_CHILDREN)
    /\ Set(NodeChildrenStep(Popped))

NodeEnd ==
    /\ Next1(STATE_NODE_END)
    /\ \E r \in CallOutcomes : Set(NodeEndStep(Popped, r))

NodeSibling ==
    /\ Next1(STATE_NODE_SIBLING)
    /\ \E r \in EndTreeOutcomes : Set(NodeSiblingStep(Popped, r))

TreeEnd ==
    /\ Next1(STATE_TREE_END)
    /\ \E r \in CallOutcomes : Set(TreeEndStep(Popped, r))

InvokeResultCallback ==
    /\ Next1("InvokeResultCallback")
    /\ Set(InvokeResultCallbackStep(Popped, Head(queue).arg, Head(queue).req))

\* le_fd_Write on the non-blocking write end of a pipe of harness.cap
\* pieces: -1 (EPIPE) when no reader is left, -1 (EAGAIN) when the pipe is
\* full, otherwise the number of pieces that still fit.
PipeWrite ==
    LET room == harness.cap - pipe.len
    IN  IF ~pipe.reader \/ room = 0 THEN -1
        ELSE IF formatter.available < room THEN formatter.available
        ELSE room

\* What the kernel reports for the write end of that pipe: POLLOUT while it
\* is enabled and the pipe has room; once the reader has closed, a hang-up,
\* an error or both, together with POLLOUT while that is enabled.
PipeEvents ==
    IF pipe.reader
    THEN IF formatter.pollout /\ pipe.len < harness.cap
         THEN {{"POLLOUT"}} ELSE {}
    ELSE {ev \cup (IF formatter.pollout THEN {"POLLOUT"} ELSE {}) :
             ev \in {{"POLLHUP"}, {"POLLERR"}, {"POLLERR", "POLLHUP"}}}

\* What le_fd_Write may return for the buffered text: an error, or the
\* number of pieces the pipe took.
WriteCounts ==
    IF harness.cap > 0 THEN {PipeWrite}
    ELSE (IF harness.fail THEN {-1} ELSE {})
           \cup 1..(IF formatter.available > 1 THEN formatter.available
                    ELSE 1)

\* The events the monitor may report: POLLOUT while it is enabled, and a
\* hang-up or an error when the reader or the pipe fails.
EventSets ==
    IF harness.cap > 0 THEN PipeEvents ELSE
    {ev \in (IF harness.fail
             THEN {{"POLLOUT"}, {"POLLHUP"}, {"POLLERR"},
                   {"POLLOUT", "POLLHUP"}}
             ELSE {{"POLLOUT"}}) :
        "POLLOUT" \in ev => formatter.pollout}

ExplicitSendHandler ==
    /\ Next1("ExplicitSendHandler")
    /\ \E count \in WriteCounts : Set(ExplicitSendHandlerStep(Popped, count))

\* The event loop dispatches an event of the monitored stream.
StreamHandler ==
    /\ Alive
    /\ formatter.monitor = "live"
    /\ \E ev \in EventSets :
          \E count \in (IF "POLLOUT" \in ev THEN WriteCounts ELSE {1}) :
             Set(StreamHandlerStep(Cur, ev, count))

\* The client reads some of what the pipe holds.
ReaderRead ==
    /\ Alive
    /\ pipe.reader /\ pipe.len > 0
    /\ \E k \in 1..pipe.len : Set([Cur EXCEPT !.pipe.len = @ - k])

\* The client closes its end of the pipe while the snapshot is running.
ReaderClose ==
    /\ Alive
    /\ IsRunning /\ fds.sink /\ pipe.reader
    /\ Set([Cur EXCEPT !.pipe.reader = FALSE])

\* A client switches deletion tracking on or off between snapshots.
query_TrackDeletions ==
    /\ Alive
    /\ ~IsRunning
    /\ counts.track < MaxTrackCalls
    /\ \E on \in BOOLEAN : Set(query_TrackDeletionsStep(Cur, on))

\* A client deletes a resource; structural changes wait while tree updates
\* are paused.
DeleteEntry ==
    /\ Alive
    /\ ~updatePaused
    /\ \E e \in resources :
          /\ tree[e].present /\ ~tree[e].deleted
          /\ Set(DeleteResource(Cur, e))

\* ------------------------------------------------------------ initial state
\* A tree as the resource API leaves it: every entry but the root was
\* created as a resource, may still be new, may have been deleted while
\* deletions were tracked, and was last modified at some time.
InitEntry(e, new, deleted, lastMod) ==
    [present |-> TRUE, refs |-> Len(ChildOrder[e]) + 1, new |-> new,
     deleted |-> deleted, relevant |-> FALSE, lastMod |-> lastMod]

InitTrees ==
    {t \in [Entries -> [present : {TRUE}, refs : 1..3, new : BOOLEAN,
                        deleted : BOOLEAN, relevant : {FALSE},
                        lastMod : Times]] :
        /\ \A e \in Entries : t[e].refs = Len(ChildOrder[e]) + 1
        /\ t["root"] = InitEntry("root", FALSE, FALSE, 0)}

\* One such tree: /a and /b freshly created, /a/c deleted.
SmallTree ==
    [e \in Entries |->
        CASE e = "root" -> InitEntry(e, FALSE, FALSE, 0)
          [] e = "c" -> InitEntry(e, FALSE, TRUE, MaxTime)
          [] OTHER -> InitEntry(e, TRUE, FALSE, MaxTime)]

\* Filters of a formatter that reports live entries and deleted entries in
\* separate passes.
TwoFilters == {LIVE_FILTERS, SNAPSHOT_FILTER_DELETED}

\* The entries of the trees above that have a Resource attached.
IoEntries == {e \in Entries : EntryType[e] # "ADMIN_ENTRY_TYPE_NAMESPACE"}

InitEngine ==
    /\ IsRunning = FALSE
    /\ Snapshot = ZeroSnapshot
    /\ Parents = <<>>
    /\ formatter = NoFormatter
    /\ queue = <<>>
    /\ updatePaused = FALSE
    /\ fds = [sink |-> FALSE, source |-> FALSE]
    /\ crashed = "none"
    /\ written = <<>>
    /\ calls = <<>>
    /\ pass = [tree |-> tree, filter |-> 0, filters |-> <<>>, start |-> tree]
    /\ delivered = <<>>
    /\ requests = <<>>
    /\ ends = <<>>
    /\ counts = [startUpdate |-> 0, endUpdate |-> 0, close |-> 0,
                 startTree |-> 0, current |-> 0, track |-> 0]
    /\ pipe = [len |-> 0, reader |-> TRUE]

\* Sequences of requests against one tree; the plug-in may fail.
Init ==
    /\ tree = SmallTree
    /\ InitEngine
    /\ sample = NoSample
    /\ hub = NoHub
    /\ AreDeletionsTracked = TRUE
    /\ resources = IoEntries
    /\ harness = [requests |-> MaxRequests, passes |-> MaxScan,
                  filters |-> TwoFilters, sinces |-> {0}, fail |-> TRUE,
                  formats |-> {"plugin"},
                  types |-> DataType, valued |-> Entries, cap |-> 0]

Next ==
    \/ query_TakeSnapshot
    \/ NodeBegin
    \/ NodeChildren
    \/ NodeEnd
    \/ NodeSibling
    \/ TreeEnd
    \/ InvokeResultCallback

Spec == Init /\ [][Next]_vars

\* One request against every tree, with every filter.
InitTree ==
    /\ tree \in InitTrees
    /\ InitEngine
    /\ sample = NoSample
    /\ hub = NoHub
    /\ AreDeletionsTracked = TRUE
    /\ resources = IoEntries
    /\ harness = [requests |-> 1, passes |-> 1, filters |-> AllFilters,
                  sinces |-> {0}, fail |-> FALSE, formats |-> {"plugin"},
                  types |-> DataType, valued |-> Entries, cap |-> 0]

SpecTree == InitTree /\ [][Next]_vars

\* One request to a plug-in that may ask for passes without end.
InitPasses ==
    /\ tree = SmallTree
    /\ InitEngine
    /\ sample = NoSample
    /\ hub = NoHub
    /\ AreDeletionsTracked = TRUE
    /\ resources = IoEntries
    /\ harness = [requests |-> 1, passes |-> MAX_PASSES + 1,
                  filters |-> {LIVE_FILTERS}, sinces |-> Times, fail |-> TRUE,
                  formats |-> {"plugin"},
                  types |-> DataType, valued |-> Entries, cap |-> 0]

SpecPasses == InitPasses /\ [][Next]_vars

\* Requests for JSON snapshots over a pipe that takes the text whole or in
\* parts and whose reader stays.  In the tree /b and /a/c may each be alive
\* or deleted.
JsonTrees ==
    {[SmallTree EXCEPT !["b"].deleted = db, !["b"].new = ~db,
                       !["c"].deleted = dc, !["c"].new = ~dc] :
        db \in BOOLEAN, dc \in BOOLEAN}

InitJson ==
    /\ tree \in JsonTrees
    /\ InitEngine
    /\ sample = NoSample
    /\ hub = NoHub
    /\ AreDeletionsTracked = TRUE
    /\ resources = IoEntries
    /\ harness = [requests |-> MaxRequests, passes |-> 0, filters |-> {},
                  sinces |-> {0}, fail |-> FALSE,
                  formats |-> {"QUERY_SNAPSHOT_FORMAT_JSON"},
                  types |-> DataType, valued |-> Entries, cap |-> 0]

NextJson ==
    \/ query_TakeSnapshot
    \/ NodeBegin
    \/ NodeChildren
    \/ NodeEnd
    \/ NodeSibling
    \/ TreeEnd
    \/ InvokeResultCallback
    \/ ExplicitSendHandler
    \/ StreamHandler

SpecJson == InitJson /\ [][NextJson]_vars

\* One JSON snapshot of trees whose resources /b and /a/c differ in what the
\* formatter looks at: new or not, modified after `since` or not, /b a
\* numeric input or a trigger, and /b with or without a current value (an
\* input has none until a sample is pushed to it).
ValueTrees ==
    {[SmallTree EXCEPT !["b"].new = nb, !["b"].lastMod = mb,
                       !["c"].new = nc, !["c"].lastMod = mc,
                       !["c"].deleted = FALSE] :
        nb \in BOOLEAN, nc \in BOOLEAN, mb \in Times, mc \in Times}

InitValues ==
    /\ tree \in ValueTrees
    /\ InitEngine
    /\ sample = NoSample
    /\ hub = NoHub
    /\ AreDeletionsTracked = TRUE
    /\ resources = IoEntries
    /\ \E tb \in {"IO_DATA_TYPE_NUMERIC", "IO_DATA_TYPE_TRIGGER"},
          valued \in {Entries, Entries \ {"b"}} :
          harness = [requests |-> 1, passes |-> 0, filters |-> {},
                     sinces |-> {0}, fail |-> FALSE,
                     formats |-> {"QUERY_SNAPSHOT_FORMAT_JSON"},
                     types |-> [DataType EXCEPT !["b"] = tb],
                     valued |-> valued, cap |-> 0]

SpecValues == InitValues /\ [][NextJson]_vars

\* Snapshots through the plug-in formatter of a tree in which nothing is
\* deleted yet, while clients delete resources and switch deletion
\* tracking.  Tracking has been switched on (snapshot_Init leaves it off);
\* /a is a resource with a child.
LiveTree ==
    [e \in Entries |->
        InitEntry(e, FALSE, FALSE, IF e = "root" THEN 0 ELSE MaxTime)]

InitDeletions ==
    /\ tree = LiveTree
    /\ InitEngine
    /\ sample = NoSample
    /\ hub = NoHub
    /\ AreDeletionsTracked = TRUE
    /\ resources = Entries \ {"root"}
    /\ harness = [requests |-> MaxRequests, passes |-> MaxScan,
                  filters |-> TwoFilters, sinces |-> {0}, fail |-> FALSE,
                  formats |-> {"plugin"},
                  types |-> DataType, valued |-> Entries, cap |-> 0]

NextDeletions ==
    \/ query_TakeSnapshot
    \/ NodeBegin
    \/ NodeChildren
    \/ NodeEnd
    \/ NodeSibling
    \/ TreeEnd
    \/ InvokeResultCallback
    \/ query_TrackDeletions
    \/ DeleteEntry

SpecDeletions == InitDeletions /\ [][NextDeletions]_vars

\* One request for a JSON snapshot whose pipe holds PipeCap pieces, read by
\* a client that may fall behind and may close its end.
InitPipes ==
    /\ tree \in JsonTrees
    /\ InitEngine
    /\ sample = NoSample
    /\ hub = NoHub
    /\ AreDeletionsTracked = TRUE
    /\ resources = IoEntries
    /\ harness = [requests |-> 1, passes |-> 0, filters |-> {},
                  sinces |-> {0}, fail |-> FALSE,
                  formats |-> {"QUERY_SNAPSHOT_FORMAT_JSON"},
                  types |-> DataType, valued |-> Entries, cap |-> PipeCap]

NextPipes ==
    \/ query_TakeSnapshot
    \/ NodeBegin
    \/ NodeChildren
    \/ NodeEnd
    \/ NodeSibling
    \/ TreeEnd
    \/ InvokeResultCallback
    \/ ExplicitSendHandler
    \/ StreamHandler
    \/ ReaderRead
    \/ ReaderClose

SpecPipes == InitPipes /\ [][NextPipes]_vars

\* ------------------------------------------------------------ data samples
\* Strings are sequences of bytes without the terminating NUL.  The
\* characters of the source strings: U+0001, line feed, quotation mark,
\* reverse solidus, 'a' and the two-byte U+00E9.
Chars == {<<1>>, <<10>>, <<34>>, <<92>>, <<97>>, <<195, 169>>}

RECURSIVE StringsOf(_)
StringsOf(n) ==
    IF n = 0 THEN {<<>>}
    ELSE LET S == StringsOf(n - 1) IN S \cup {s \o c : s \in S, c \in Chars}

\* srcStr[i] of a NUL-terminated string (i counts from 0); the bytes behind
\* the terminator are not the string's.
CharAt(src, i) == IF i < Len(src) THEN src[i + 1] ELSE 0

\* A byte as the value of a C char: negative from 0x80 up where char is signed.
AsChar(b, signedChar) == IF signedChar /\ b >= 128 THEN b - 256 ELSE b

\* A caller's buffer of `size` bytes, not yet written (-1), and whether a
\* byte was written outside it.
NewBuffer(size) == [mem |-> [k \in 0..(size - 1) |-> -1], oob |-> FALSE]

Poke(b, k, v) ==
    IF k \in DOMAIN b.mem THEN [b EXCEPT !.mem[k] = v]
    ELSE [b EXCEPT !.oob = TRUE]

RECURSIVE PokeAll(_, _, _)
PokeAll(b, k, bytes) ==
    IF bytes = <<>> THEN b
    ELSE PokeAll(Poke(b, k, Head(bytes)), k + 1, Tail(bytes))

\* The C string a buffer holds from offset k on: the bytes before the first
\* NUL (or the end of the buffer).
RECURSIVE CString(_, _)
CString(b, k) ==
    IF k \notin DOMAIN b.mem \/ b.mem[k] = 0 THEN <<>>
    ELSE <<b.mem[k]>> \o CString(b, k + 1)

\* le_utf8_NumBytesInChar: the length of a character from its first byte.
le_utf8_NumBytesInChar(c) ==
    IF c \in 0..127 THEN 1
    ELSE IF c \in 192..223 THEN 2
    ELSE IF c \in 224..239 THEN 3
    ELSE IF c \in 240..247 THEN 4
    ELSE 0

ComputeEscapedCharLength(inputChar) ==
    IF inputChar > 31 /\ inputChar # 34 /\ inputChar # 92
    THEN le_utf8_NumBytesInChar(inputChar)
    ELSE IF inputChar \in {92, 34, 8, 12, 10, 13, 9} THEN 2
    ELSE 5

\* snprintf(&b[at], size, text): as much of the text as fits with the
\* terminator; snprintf returns Len(text).
Snprintf(b, at, size, text) ==
    IF size = 0 THEN b
    ELSE LET n == IF Len(text) < size THEN Len(text) ELSE size - 1
         IN  PokeAll(b, at, SubSeq(text, 1, n) \o <<0>>)

\* The text of "u%04x" for a char, which is printed as an unsigned int.
HexDigit(d) == IF d < 10 THEN 48 + d ELSE 87 + d

UnicodeEscape(c) ==
    IF c < 0
    THEN <<117, 102, 102, 102, 102, 102, 102,
           HexDigit((c + 256) \div 16), HexDigit((c + 256) % 16)>>
    ELSE <<117, 48, 48, HexDigit(c \div 16), HexDigit(c % 16)>>

\* EscapeCharacter(&srcStr[i], &destStr[j]): the input character's length,
\* the buffer, and whether LE_ASSERT(len == 5) held.
EscapeCharacter(src, i, signedChar, b, j) ==
    LET c == AsChar(CharAt(src, i), signedChar)
        short == [x \in {92, 34} |-> x] @@ (8 :> 98) @@ (12 :> 102)
                 @@ (10 :> 110) @@ (13 :> 114) @@ (9 :> 116)
    IN  IF c > 31 /\ c # 34 /\ c # 92
        THEN LET charLength == le_utf8_NumBytesInChar(c)
             IN  [len |-> charLength, ok |-> TRUE,
                  buf |-> PokeAll(b, j, [k \in 1..charLength |->
                                            CharAt(src, i + k - 1)])]
        ELSE IF c \in DOMAIN short
        THEN [len |-> 1, ok |-> TRUE, buf |-> PokeAll(b, j, <<92, short[c]>>)]
        ELSE [len |-> 1, ok |-> Len(UnicodeEscape(c)) = 5,
              buf |-> Snprintf(Poke(b, j, 92), j + 1, 6, UnicodeEscape(c))]

\* The loop of dataSample_StringToJson from srcStr[i] and destStr[j] on;
\* destStr is the buffer from offset `at` on and has destSize bytes.
RECURSIVE StringToJsonFrom(_, _, _, _, _, _, _)
StringToJsonFrom(src, signedChar, b, at, destSize, i, j) ==
    LET escapedCharLength ==
            ComputeEscapedCharLength(AsChar(CharAt(src, i), signedChar))
        e == EscapeCharacter(src, i, signedChar, b, at + j)
    IN  IF CharAt(src, i) = 0
        THEN [result |-> "LE_OK", buf |-> Poke(b, at + j, 0), numBytes |-> j]
        ELSE IF escapedCharLength = 0
        THEN [result |-> "LE_OK", buf |-> Poke(b, at, 0), numBytes |-> 0]
        ELSE IF escapedCharLength + j >= destSize
        THEN [result |-> "LE_OVERFLOW", buf |-> Poke(b, at + j, 0),
              numBytes |-> j]
        ELSE IF ~e.ok
        THEN [result |-> "LE_ASSERT", buf |-> e.buf, numBytes |-> j]
        ELSE StringToJsonFrom(src, signedChar, e.buf, at, destSize,
                              i + e.len, j + escapedCharLength)

dataSample_StringToJson(src, signedChar, b, at, destSize) ==
    StringToJsonFrom(src, signedChar, b, at, destSize, 0, 0)

\* le_utf8_Copy(destStr, srcStr, destSize, numBytesPtr): whole characters,
\* as many as fit with the terminator.
RECURSIVE le_utf8_CopyFrom(_, _, _, _)
le_utf8_CopyFrom(src, b, destSize, i) ==
    LET charLength == le_utf8_NumBytesInChar(CharAt(src, i))
    IN  IF CharAt(src, i) = 0
        THEN [result |-> "LE_OK", buf |-> Poke(b, i, 0), numBytes |-> i]
        ELSE IF charLength = 0
        THEN [result |-> "LE_OK", buf |-> Poke(b, 0, 0), numBytes |-> 0]
        ELSE IF charLength + i >= destSize
        THEN [result |-> "LE_OVERFLOW", buf |-> Poke(b, i, 0), numBytes |-> i]
        ELSE le_utf8_CopyFrom(src,
                 PokeAll(b, i, [k \in 1..charLength |-> CharAt(src, i + k - 1)]),
                 destSize, i + charLength)

le_utf8_Copy(src, b, destSize) == le_utf8_CopyFrom(src, b, destSize, 0)

\* srcStr[i] where the code may read outside the string: the byte before
\* its first character and the byte behind its terminator hold `stray`,
\* whatever the memory there happens to hold.
SrcAt(src, i, stray) ==
    IF i \in 0..Len(src) THEN CharAt(src, i)
    ELSE IF i = -1 \/ i = Len(src) + 1 THEN stray
    ELSE 0

\* The while loop of dataSample_JsonToString: the buffer and writeIndex at
\* the break, and whether a byte outside the string was read.
RECURSIVE JsonToStringFrom(_, _, _, _, _)
JsonToStringFrom(src, stray, b, readIndex, writeIndex) ==
    LET pos == CHOOSE p \in 0..(Len(src) + 3) :
                   /\ SrcAt(src, readIndex + p, stray) \in {0, 92}
                   /\ \A q \in 0..(p - 1) :
                          SrcAt(src, readIndex + q, stray) \notin {0, 92}
        copied == PokeAll(b, writeIndex,
                      [k \in 1..pos |-> SrcAt(src, readIndex + k - 1, stray)])
        r == readIndex + pos
        w == writeIndex + pos
        rest == JsonToStringFrom(src, stray,
                    Poke(copied, w, SrcAt(src, r + 1, stray)), r + 2, w + 1)
    IN  IF r >= Len(src)
        THEN [buf |-> copied, writeIndex |-> w, ub |-> readIndex > Len(src)]
        ELSE [rest EXCEPT !.ub = @ \/ readIndex > Len(src)]

dataSample_JsonToString(src, stray, b, destSize) ==
    LET srcLen == Len(src)
        loop == JsonToStringFrom(src, stray, b, 1, 0)
    IN  IF destSize < srcLen
        THEN [result |-> "LE_BAD_PARAMETER", buf |-> b, numBytes |-> 0,
              ub |-> FALSE]
        ELSE IF SrcAt(src, 0, stray) # 34 /\ SrcAt(src, srcLen - 1, stray) # 34
        THEN [ub |-> srcLen = 0] @@ le_utf8_Copy(src, b, destSize)
        ELSE IF srcLen < 2
        THEN [result |-> "LE_FORMAT_ERROR", buf |-> b, numBytes |-> 0,
              ub |-> srcLen = 0]
        ELSE [result |-> "LE_OK", ub |-> loop.ub,
              buf |-> Poke(loop.buf, loop.writeIndex - 1, 0),
              numBytes |-> loop.writeIndex - 1]

\* CreateSample and the dataSample_Create functions: the sentinel IO_NOW is
\* replaced by the clock's time.
IO_NOW == 0

CreateSample(dataType, value, timestamp, now) ==
    [type |-> dataType, value |-> value,
     timestamp |-> IF timestamp = IO_NOW THEN now ELSE timestamp]

\* The clock never shows the sentinel.
Clock == Times \ {IO_NOW}

StringTypes == {"IO_DATA_TYPE_STRING", "IO_DATA_TYPE_JSON"}

SampleTypes ==
    {"IO_DATA_TYPE_TRIGGER", "IO_DATA_TYPE_BOOLEAN", "IO_DATA_TYPE_NUMERIC"}
    \cup StringTypes

\* The values a sample of a type is created with; strings of up to n
\* characters.
SampleValues(dataType, n) ==
    CASE dataType = "IO_DATA_TYPE_TRIGGER" -> {<<>>}
      [] dataType = "IO_DATA_TYPE_BOOLEAN" -> BOOLEAN
      [] dataType = "IO_DATA_TYPE_NUMERIC" -> {0, 7}
      [] OTHER -> StringsOf(n)

\* printf's text of a boolean and of a small whole number under "%lf".
ValueText(dataType, value) ==
    CASE dataType = "IO_DATA_TYPE_BOOLEAN" ->
             IF value THEN <<116, 114, 117, 101>>
             ELSE <<102, 97, 108, 115, 101>>
      [] dataType = "IO_DATA_TYPE_NUMERIC" ->
             <<48 + value, 46, 48, 48, 48, 48, 48, 48>>
      [] OTHER -> value

\* Trigger, Boolean and Numeric are printed alike by both conversions.
ConvertScalar(s, b, valueBuffSize) ==
    IF s.type = "IO_DATA_TYPE_TRIGGER"
    THEN IF valueBuffSize > 0
         THEN [result |-> "LE_OK", buf |-> Poke(b, 0, 0)]
         ELSE [result |-> "LE_OVERFLOW", buf |-> b]
    ELSE [result |-> IF Len(ValueText(s.type, s.value)) >= valueBuffSize
                     THEN "LE_OVERFLOW" ELSE "LE_OK",
          buf |-> Snprintf(b, 0, valueBuffSize, ValueText(s.type, s.value))]

dataSample_ConvertToString(s, stray, b, valueBuffSize) ==
    CASE s.type = "IO_DATA_TYPE_STRING" ->
             [ub |-> FALSE] @@ le_utf8_Copy(s.value, b, valueBuffSize)
      [] s.type = "IO_DATA_TYPE_JSON" ->
             dataSample_JsonToString(s.value, stray, b, valueBuffSize)
      [] OTHER ->
             [numBytes |-> 0, ub |-> FALSE] @@ ConvertScalar(s, b, valueBuffSize)

dataSample_ConvertToJson(s, b, valueBuffSize) ==
    LET r == dataSample_StringToJson(s.value, s.signedChar, Poke(b, 0, 34),
                                     1, valueBuffSize - 1)
    IN  CASE s.type = "IO_DATA_TYPE_STRING" ->
                 IF valueBuffSize < 3
                 THEN [result |-> "LE_OVERFLOW", buf |-> b]
                 ELSE IF r.result = "LE_ASSERT"
                 THEN [result |-> "LE_ASSERT", buf |-> r.buf]
                 ELSE IF r.result # "LE_OK"
                         \/ r.numBytes >= (valueBuffSize - 1) - 1
                 THEN [result |-> "LE_OVERFLOW", buf |-> r.buf]
                 ELSE [result |-> "LE_OK",
                       buf |-> Poke(Poke(r.buf, 1 + r.numBytes, 34),
                                    1 + r.numBytes + 1, 0)]
          [] s.type = "IO_DATA_TYPE_JSON" ->
                 LET c == le_utf8_Copy(s.value, b, valueBuffSize)
                 IN  [result |-> c.result, buf |-> c.buf]
          [] OTHER -> ConvertScalar(s, b, valueBuffSize)

\* What json_Extract may find in a JSON value: nothing, or a member of one
\* of the JSON types, already converted to the value of the new sample.
Extractions ==
    {[ok |-> FALSE]}
    \cup UNION {{[ok |-> TRUE, type |-> t, value |-> v] :
                    v \in SampleValues(t, 1)} : t \in SampleTypes}

dataSample_ExtractJson(s, x, now) ==
    IF ~x.ok THEN NULL
    ELSE CreateSample(x.type, x.value, s.timestamp, now)

\* No dataSample_ function has been called on the sample yet.
NoCall == [fn |-> "none"]

\* The call observed on a sample is its first one, or the unescaping of
\* the text dataSample_ConvertToJson has just produced from it.
Fresh == sample.type # "none" /\ sample.call = NoCall

\* A call's arguments and results become the sample's last call.
SampleCall(c) == Set([Cur EXCEPT !.sample.call = c])

StringToJson ==
    /\ Fresh
    /\ sample.type = "IO_DATA_TYPE_STRING"
    /\ \E size \in 1..MaxSize :
           SampleCall([fn |-> "dataSample_StringToJson",
                       src |-> sample.value, size |-> size, ub |-> FALSE]
                      @@ dataSample_StringToJson(sample.value,
                             sample.signedChar, NewBuffer(size), 0, size))

\* The strings at hand to unescape: the sample's value, and the text the
\* last dataSample_ConvertToJson produced from a string.
JsonSources ==
    IF Fresh
    THEN IF sample.type \in StringTypes
         THEN {[trip |-> FALSE, src |-> sample.value]} ELSE {}
    ELSE IF /\ sample.call.fn = "dataSample_ConvertToJson"
            /\ sample.call.result = "LE_OK"
            /\ sample.type = "IO_DATA_TYPE_STRING"
    THEN {[trip |-> TRUE, src |-> CString(sample.call.buf, 0)]}
    ELSE {}

\* What the memory next to a string may hold: a NUL, a quotation mark, a
\* letter.
Strays == {0, 34, 97}

JsonToString ==
    /\ sample.type # "none"
    /\ \E in \in JsonSources, size \in 1..MaxSize, stray \in Strays :
           SampleCall([fn |-> "dataSample_JsonToString", src |-> in.src,
                       trip |-> in.trip, size |-> size]
                      @@ dataSample_JsonToString(in.src, stray,
                                                 NewBuffer(size), size))

ConvertToString ==
    /\ Fresh
    /\ \E size \in 1..MaxSize, stray \in Strays :
           SampleCall([fn |-> "dataSample_ConvertToString", size |-> size]
                      @@ dataSample_ConvertToString(sample, stray,
                                                    NewBuffer(size), size))

ConvertToJson ==
    /\ Fresh
    /\ \E size \in 1..MaxSize :
           SampleCall([fn |-> "dataSample_ConvertToJson", size |-> size]
                      @@ dataSample_ConvertToJson(sample, NewBuffer(size),
                                                  size))

ExtractJson ==
    /\ Fresh
    /\ sample.type = "IO_DATA_TYPE_JSON"
    /\ \E x \in Extractions, now \in Clock :
           SampleCall([fn |-> "dataSample_ExtractJson", found |-> x.ok,
                       original |-> [type |-> sample.type,
                                     value |-> sample.value,
                                     timestamp |-> sample.timestamp],
                       extracted |-> dataSample_ExtractJson(sample, x, now)])

SetTimestamp ==
    /\ Fresh
    /\ \E timestamp \in Times :
           Set([Cur EXCEPT !.sample.timestamp = timestamp])

\* Every sample the dataSample_Create functions make, on builds with signed
\* and with unsigned char; no snapshot is requested.
InitSamples ==
    /\ tree = SmallTree
    /\ InitEngine
    /\ AreDeletionsTracked = TRUE
    /\ resources = IoEntries
    /\ harness = [requests |-> 0, passes |-> 0, filters |-> {},
                  sinces |-> {0}, fail |-> FALSE, formats |-> {"plugin"},
                  types |-> DataType, valued |-> Entries, cap |-> 0]
    /\ hub = NoHub
    /\ \E t \in SampleTypes, timestamp \in Times, now \in Clock,
          signedChar \in BOOLEAN :
           \E v \in SampleValues(t, MaxChars) :
               sample = [signedChar |-> signedChar, call |-> NoCall]
                        @@ CreateSample(t, v, timestamp, now)

NextSamples ==
    \/ StringToJson
    \/ JsonToString
    \/ ConvertToString
    \/ ConvertToJson
    \/ ExtractJson
    \/ SetTimestamp

SpecSamples == InitSamples /\ [][NextSamples]_vars

\* --------------------------------------------------------------- resources
\* resource.c is not among the sources.  The resources are modelled from
\* the contract resource.h documents and from the specification of the
\* resource tree and of the push pipeline.
HubPaths == {"/a", "/b", "/c"}
HubTypes == {"IO_DATA_TYPE_NUMERIC", "IO_DATA_TYPE_STRING"}
HubUnits == {"", "s"}
IoVariants == {"ADMIN_ENTRY_TYPE_INPUT", "ADMIN_ENTRY_TYPE_OUTPUT"}

\* The entry of a path that holds no resource.  override and default are
\* the recorded types of the settings (their values do not matter);
\* current tells which value the resource holds: a pushed one ("pushed") or
\* the override's ("override").
NoResource ==
    [variant |-> "ADMIN_ENTRY_TYPE_NONE", type |-> NULL, units |-> NULL,
     source |-> NULL, override |-> NULL, default |-> NULL,
     current |-> NULL, currentType |-> NULL]

\* A call's name, arguments and results.
Call(fn, path) ==
    [fn |-> fn, path |-> path, variant |-> NULL, type |-> NULL,
     units |-> NULL, src |-> NULL, ret |-> "LE_OK", received |-> NULL]

\* The state after a call.
Done(h, call) == [h EXCEPT !.last = call, !.ops = @ + 1]

res_HasDefault(h, p) == h.res[p].default # NULL

res_IsOverridden(h, p) == h.res[p].override # NULL

\* Source, destinations, override and default are the admin settings.
res_HasAdminSettings(h, p) ==
    \/ h.res[p].source # NULL
    \/ \E q \in HubPaths : h.res[q].source = p
    \/ res_IsOverridden(h, p)
    \/ res_HasDefault(h, p)

\* A Placeholder exists only as long as it holds admin settings; an admin
\* setting applied to a path without resource creates one.
Released(h) ==
    [h EXCEPT !.res = [p \in HubPaths |->
        IF h.res[p].variant = "ADMIN_ENTRY_TYPE_PLACEHOLDER"
           /\ ~res_HasAdminSettings(h, p)
        THEN NoResource ELSE h.res[p]]]

Placed(h, p) ==
    IF h.res[p].variant = "ADMIN_ENTRY_TYPE_NONE"
    THEN [h EXCEPT !.res[p].variant = "ADMIN_ENTRY_TYPE_PLACEHOLDER"]
    ELSE h

\* io_Create that does not compare the units with the existing resource's.
io_CreateAnyUnits(h, p, variant, type, units) ==
    LET r == h.res[p]
        call == [Call("io_Create", p) EXCEPT !.variant = variant,
                     !.type = type, !.units = units]
    IN  IF r.variant \in {"ADMIN_ENTRY_TYPE_NONE",
                          "ADMIN_ENTRY_TYPE_PLACEHOLDER"}
        THEN Done([h EXCEPT !.res[p] =
                       [r EXCEPT !.variant = variant, !.type = type,
                                 !.units = units, !.current = NULL,
                                 !.currentType = NULL,
                                 !.override = IF @ = type THEN @ ELSE NULL,
                                 !.default = IF @ = type THEN @ ELSE NULL],
                     !.added[p] = @ + 1], call)
        ELSE IF r.variant = variant /\ r.type = type
        THEN Done(h, call)
        ELSE Done(h, [call EXCEPT !.ret = "LE_DUPLICATE"])

\* io_CreateInput and io_CreateOutput: a new resource, or the Placeholder
\* of the path replaced by one that takes over its admin settings, except
\* an override and a default of another data type, which an Input or
\* Output discards; the tree-change handler is told of the addition.
io_Create(h, p, variant, type, units) ==
    LET r == h.res[p]
        call == [Call("io_Create", p) EXCEPT !.variant = variant,
                     !.type = type, !.units = units]
    IN  IF r.variant \in {"ADMIN_ENTRY_TYPE_NONE",
                          "ADMIN_ENTRY_TYPE_PLACEHOLDER"}
        THEN Done([h EXCEPT !.res[p] =
                       [r EXCEPT !.variant = variant, !.type = type,
                                 !.units = units, !.current = NULL,
                                 !.currentType = NULL,
                                 !.override = IF @ = type THEN @ ELSE NULL,
                                 !.default = IF @ = type THEN @ ELSE NULL],
                     !.added[p] = @ + 1], call)
        ELSE IF r.variant = variant /\ r.type = type /\ r.units = units
        THEN Done(h, call)
        ELSE Done(h, [call EXCEPT !.ret = "LE_DUPLICATE"])

\* io_DeleteResource that removes the entry whatever admin settings it has.
io_DeleteResourceWithSettings(h, p) ==
    IF h.res[p].variant \in IoVariants
    THEN Done([h EXCEPT !.res[p] = NoResource, !.removed[p] = @ + 1],
              Call("io_DeleteResource", p))
    ELSE Done(h, Call("io_DeleteResource", p))

\* io_DeleteResource: an Input or Output with admin settings becomes a
\* Placeholder that keeps them, one without is removed; the tree-change
\* handler is told of the removal.
io_DeleteResource(h, p) ==
    LET r == h.res[p]
        placeholder == [r EXCEPT !.variant = "ADMIN_ENTRY_TYPE_PLACEHOLDER",
                                 !.type = NULL, !.units = NULL,
                                 !.current = NULL, !.currentType = NULL]
    IN  IF r.variant \in IoVariants
        THEN Done([h EXCEPT !.res[p] = IF res_HasAdminSettings(h, p)
                                       THEN placeholder ELSE NoResource,
                            !.removed[p] = @ + 1],
                  Call("io_DeleteResource", p))
        ELSE Done(h, Call("io_DeleteResource", p))

\* The resources met walking upstream from p over at most n source links.
RECURSIVE Upstream(_, _, _)
Upstream(h, p, n) ==
    IF p = NULL \/ n = 0 THEN {}
    ELSE {p} \cup Upstream(h, h.res[p].source, n - 1)

\* res_SetSource without the walk upstream.
res_SetSourceUnchecked(h, dest, src) ==
    LET call == [Call("res_SetSource", dest) EXCEPT !.src = src]
    IN  IF src = NULL
        THEN Done(Released([h EXCEPT !.res[dest].source = NULL]), call)
        ELSE IF h.res[dest].source = src
        THEN Done(h, call)
        ELSE Done(Released([Placed(Placed(h, dest), src)
                               EXCEPT !.res[dest].source = src]), call)

\* res_SetSource(destPtr, srcPtr), srcPtr = NULL to clear: LE_DUPLICATE if
\* the route would close a loop, nothing to do if the route exists.
res_SetSource(h, dest, src) ==
    LET call == [Call("res_SetSource", dest) EXCEPT !.src = src]
    IN  IF src = NULL
        THEN Done(Released([h EXCEPT !.res[dest].source = NULL]), call)
        ELSE IF h.res[dest].source = src
        THEN Done(h, call)
        ELSE IF dest \in Upstream(h, src, Cardinality(HubPaths))
        THEN Done(h, [call EXCEPT !.ret = "LE_DUPLICATE"])
        ELSE Done(Released([Placed(Placed(h, dest), src)
                               EXCEPT !.res[dest].source = src]), call)

\* A setting of an Input or Output is in effect only if its recorded type
\* is the declared type of the resource.
InEffect(r, type) ==
    type # NULL /\ (r.variant \in IoVariants => type = r.type)

\* res_SetDefault and res_RemoveDefault (type = NULL): "will be discarded
\* if setting the default value on an Input or Output that doesn't have
\* the same data type".
res_SetDefault(h, p, type) ==
    Done(IF type # NULL /\ ~InEffect(h.res[p], type) THEN h
         ELSE Released([Placed(h, p) EXCEPT !.res[p].default = type]),
         [Call("res_SetDefault", p) EXCEPT !.type = type])

\* res_SetOverride and res_RemoveOverride (type = NULL): "override will be
\* discarded by an Input or Output resource if the override's data type
\* does not match the data type of the Input or Output".
res_SetOverride(h, p, type) ==
    Done(IF type # NULL /\ ~InEffect(h.res[p], type) THEN h
         ELSE Released([Placed(h, p) EXCEPT !.res[p].override = type]),
         [Call("res_SetOverride", p) EXCEPT !.type = type])

\* The push pipeline at p and at the resources downstream of it: coercion
\* to the declared type, override, acceptance, delivery to the
\* destinations.  n bounds the length of the routes followed.
RECURSIVE res_Push(_, _, _, _)
RECURSIVE PushToAll(_, _, _, _)
res_Push(h, p, type, n) ==
    LET r == h.res[p]
        coerced == IF r.variant \in IoVariants THEN r.type ELSE type
        overridden == InEffect(r, r.override)
        accepted == [h EXCEPT !.res[p].current =
                                  IF overridden THEN "override" ELSE "pushed",
                              !.res[p].currentType =
                                  IF overridden THEN r.override ELSE coerced]
    IN  IF r.variant = "ADMIN_ENTRY_TYPE_NONE" \/ n = 0 THEN h
        ELSE PushToAll(accepted, {q \in HubPaths : h.res[q].source = p},
                       accepted.res[p].currentType, n - 1)

PushToAll(h, dests, type, n) ==
    IF dests = {} THEN h
    ELSE LET q == CHOOSE q \in dests : TRUE
         IN  PushToAll(res_Push(h, q, type, n), dests \ {q}, type, n)

\* A push handler is added: the consumer receives the default if the
\* resource has no current value and a default is in effect.
io_AddPushHandler(h, p) ==
    LET r == h.res[p]
    IN  Done(h, [Call("io_AddPushHandler", p) EXCEPT !.received =
                    IF r.variant # "ADMIN_ENTRY_TYPE_NONE" /\ r.current = NULL
                       /\ InEffect(r, r.default)
                    THEN "default" ELSE NULL])

HubStep(h) == hub.ops < MaxOps /\ Set([Cur EXCEPT !.hub = h])

HubCreate ==
    \E p \in HubPaths, variant \in IoVariants, type \in HubTypes,
       units \in HubUnits :
        HubStep(io_Create(hub, p, variant, type, units))

HubDelete == \E p \in HubPaths : HubStep(io_DeleteResource(hub, p))

HubSetSource ==
    \E dest \in HubPaths, src \in HubPaths \cup {NULL} :
        HubStep(res_SetSource(hub, dest, src))

HubSetDefault ==
    \E p \in HubPaths, type \in HubTypes \cup {NULL} :
        HubStep(res_SetDefault(hub, p, type))

HubSetOverride ==
    \E p \in HubPaths, type \in HubTypes \cup {NULL} :
        HubStep(res_SetOverride(hub, p, type))

HubPush ==
    \E p \in HubPaths, type \in HubTypes :
        HubStep(Done(res_Push(hub, p, type, Cardinality(HubPaths)),
                     [Call("res_Push", p) EXCEPT !.type = type,
                         !.ret = IF hub.res[p].variant = "ADMIN_ENTRY_TYPE_NONE"
                                 THEN "LE_NOT_FOUND" ELSE "LE_OK"]))

HubAddPushHandler == \E p \in HubPaths : HubStep(io_AddPushHandler(hub, p))

\* No resource has been created yet.
EmptyHub ==
    [res |-> [p \in HubPaths |-> NoResource],
     added |-> [p \in HubPaths |-> 0],
     removed |-> [p \in HubPaths |-> 0],
     ops |-> 0, last |-> Call("none", NULL)]

\* The empty tree, or the tree in which an application has created the
\* Input /a; the clients and the administrator then make up to MaxOps
\* calls.
InitHub ==
    /\ tree = SmallTree
    /\ InitEngine
    /\ AreDeletionsTracked = TRUE
    /\ resources = IoEntries
    /\ harness = [requests |-> 0, passes |-> 0, filters |-> {},
                  sinces |-> {0}, fail |-> FALSE, formats |-> {"plugin"},
                  types |-> DataType, valued |-> Entries, cap |-> 0]
    /\ sample = NoSample
    /\ hub \in {EmptyHub,
                 [io_Create(EmptyHub, "/a", "ADMIN_ENTRY_TYPE_INPUT",
                            "IO_DATA_TYPE_NUMERIC", "") EXCEPT !.ops = 0]}

NextHub ==
    \/ HubCreate
    \/ HubDelete
    \/ HubSetSource
    \/ HubSetDefault
    \/ HubSetOverride
    \/ HubPush
    \/ HubAddPushHandler

SpecHub == InitHub /\ [][NextHub]_vars

\* -------------------------------------------------- observation filters
\* An Observation's filter settings and the pushes it is fed.  Times are
\* counted in tenths of a second and values in tenths of a unit, so that
\* a period of 1.0 s is 10 and a change of 0.5 is 5.
MaxPushes == 4

\* The minimum periods and the change magnitudes an administrator sets
\* (0 is "not set").
Periods == {0, 10}

Magnitudes == {0, 5}

\* The numeric samples pushed: (0 s, 10.0), (0.5 s, 11.0), (1.5 s, 11.2)
\* and (2.6 s, 11.8).
ObsSamples ==
    {[ts |-> 0, value |-> 100], [ts |-> 5, value |-> 110],
     [ts |-> 15, value |-> 112], [ts |-> 26, value |-> 118]}

Magnitude(x) == IF x < 0 THEN 0 - x ELSE x

\* A new Observation: no filter set, the limits unset (they stay unset
\* here, so that the range filter passes every sample), no current value.
NewObservation ==
    [minPeriod |-> 0, changeBy |-> 0, valued |-> FALSE,
     current |-> [ts |-> 0, value |-> 0]]

res_SetMinPeriod(obs, minPeriod) == [obs EXCEPT !.minPeriod = minPeriod]

res_SetChangeBy(obs, change) == [obs EXCEPT !.changeBy = change]

\* An Observation that lets every sample through.
AcceptEverySample(obs, s) == TRUE

\* The Observation filters of the push pipeline, in order: minPeriod,
\* then changeBy, both against the current value, which is the last
\* sample accepted.  The first sample has nothing to be compared with.
PassesFilters(obs, s) ==
    \/ ~obs.valued
    \/ /\ ~(s.ts - obs.current.ts < obs.minPeriod)
       /\ ~(Magnitude(s.value - obs.current.value) < obs.changeBy)

\* A push to the Observation: an accepted sample becomes the current
\* value, a rejected one is dropped.
PushToObservation(h, s) ==
    LET ok == PassesFilters(h.obs, s) IN
    [h EXCEPT !.ops = @ + 1,
              !.pushed = Append(@, s),
              !.accepted = IF ok THEN Append(@, s) ELSE @,
              !.obs = IF ok THEN [@ EXCEPT !.valued = TRUE, !.current = s]
                            ELSE @]

\* The administrator changes a setting; steady records that no setting
\* has changed since the first push.
ObsSetMinPeriod ==
    \E m \in Periods \ {hub.obs.minPeriod} :
        Set([Cur EXCEPT !.hub.obs = res_SetMinPeriod(@, m),
                        !.hub.steady = @ /\ hub.pushed = <<>>])

ObsSetChangeBy ==
    \E c \in Magnitudes \ {hub.obs.changeBy} :
        Set([Cur EXCEPT !.hub.obs = res_SetChangeBy(@, c),
                        !.hub.steady = @ /\ hub.pushed = <<>>])

ObsPush ==
    /\ hub.ops < MaxPushes
    /\ \E s \in ObsSamples : Set([Cur EXCEPT !.hub = PushToObservation(@, s)])

\* The administrator has just created the Observation.
InitObservation ==
    /\ tree = SmallTree
    /\ InitEngine
    /\ AreDeletionsTracked = TRUE
    /\ resources = IoEntries
    /\ harness = [requests |-> 0, passes |-> 0, filters |-> {},
                  sinces |-> {0}, fail |-> FALSE, formats |-> {"plugin"},
                  types |-> DataType, valued |-> Entries, cap |-> 0]
    /\ sample = NoSample
    /\ hub = [ops |-> 0, obs |-> NewObservation, pushed |-> <<>>,
              accepted |-> <<>>, steady |-> TRUE]

NextObservation ==
    \/ ObsSetMinPeriod
    \/ ObsSetChangeBy
    \/ ObsPush

SpecObservation == InitObservation /\ [][NextObservation]_vars

\* ------------------------------------------ tracking during a snapshot
\* A client switches deletion tracking while a snapshot is running, that
\* is between two deferred steps of the walker.
TrackDeletionsDuringSnapshot ==
    /\ Alive
    /\ IsRunning
    /\ counts.track < MaxTrackCalls
    /\ \E on \in BOOLEAN : Set(query_TrackDeletionsStep(Cur, on))

\* One snapshot through the plug-in formatter of a tree in which /b and
\* /a/c may each be alive or deleted, while clients switch deletion
\* tracking and delete resources.
InitTracking ==
    /\ tree \in JsonTrees
    /\ InitEngine
    /\ sample = NoSample
    /\ hub = NoHub
    /\ AreDeletionsTracked = TRUE
    /\ resources = {e \in IoEntries : ~tree[e].deleted}
    /\ harness = [requests |-> 1, passes |-> MaxScan,
                  filters |-> TwoFilters, sinces |-> {0}, fail |-> FALSE,
                  formats |-> {"plugin"},
                  types |-> DataType, valued |-> Entries, cap |-> 0]

NextTracking ==
    \/ query_TakeSnapshot
    \/ NodeBegin
    \/ NodeChildren
    \/ NodeEnd
    \/ NodeSibling
    \/ TreeEnd
    \/ InvokeResultCallback
    \/ TrackDeletionsDuringSnapshot
    \/ DeleteEntry

SpecTracking == InitTracking /\ [][NextTracking]_vars

\* ------------------------------------------- pushes during a snapshot
\* A sample with a later time stamp is pushed to a resource and accepted:
\* it becomes the current value and the entry's last modification.  Value
\* pushes are not held back while the tree's updates are paused.
PushSample ==
    /\ Alive
    /\ \E e \in resources, ts \in Times :
          /\ tree[e].present /\ ~tree[e].deleted
          /\ ts > sample.ts[e]
          /\ Set([Cur EXCEPT !.sample.ts[e] = ts, !.tree[e].lastMod = ts])

\* One JSON snapshot of the tree in which the string input /a/c and the
\* numeric input /b each hold a first sample, while further samples are
\* pushed to them.
InitLive ==
    /\ tree = [SmallTree EXCEPT !["c"].deleted = FALSE]
    /\ InitEngine
    /\ sample = [type |-> "live", ts |-> [e \in IoEntries |-> 0],
                 seen |-> <<>>, empty |-> {}]
    /\ hub = NoHub
    /\ AreDeletionsTracked = TRUE
    /\ resources = IoEntries
    /\ harness = [requests |-> 1, passes |-> 0, filters |-> {},
                  sinces |-> {0}, fail |-> FALSE,
                  formats |-> {"QUERY_SNAPSHOT_FORMAT_JSON"},
                  types |-> DataType, valued |-> Entries, cap |-> 0]

NextLive ==
    \/ query_TakeSnapshot
    \/ NodeBegin
    \/ NodeChildren
    \/ NodeEnd
    \/ NodeSibling
    \/ TreeEnd
    \/ InvokeResultCallback
    \/ ExplicitSendHandler
    \/ StreamHandler
    \/ PushSample

SpecLive == InitLive /\ [][NextLive]_vars

\* ------------------------------------------------------- termination
\* One JSON snapshot into a pipe of PipeCap pieces of a tree in which
\* /a/c holds a JSON value, whose text may be empty.  The event loop runs
\* every deferred function and reports every stream event, and the reader
\* reads whatever the pipe holds; it may close its end.
InitDrained ==
    /\ tree = [SmallTree EXCEPT !["c"].deleted = FALSE]
    /\ InitEngine
    /\ \E empty \in SUBSET {"c"} :
          sample = [type |-> "live", ts |-> [e \in IoEntries |-> 0],
                    seen |-> <<>>, empty |-> empty]
    /\ hub = NoHub
    /\ AreDeletionsTracked = TRUE
    /\ resources = IoEntries
    /\ harness = [requests |-> 1, passes |-> 0, filters |-> {},
                  sinces |-> {0}, fail |-> FALSE,
                  formats |-> {"QUERY_SNAPSHOT_FORMAT_JSON"},
                  types |-> [DataType EXCEPT !["c"] = "IO_DATA_TYPE_JSON"],
                  valued |-> Entries, cap |-> PipeCap]

\* The event loop runs the deferred function at the head of its queue.
Dispatch ==
    \/ NodeBegin
    \/ NodeChildren
    \/ NodeEnd
    \/ NodeSibling
    \/ TreeEnd
    \/ InvokeResultCallback
    \/ ExplicitSendHandler

Fairness ==
    /\ WF_vars(Dispatch)
    /\ WF_vars(StreamHandler)
    /\ WF_vars(ReaderRead)

SpecDrained == InitDrained /\ [][NextPipes]_vars /\ Fairness

\* ------------------------------------------------------------ properties
\* x is e or lies below e in the tree's shape.
RECURSIVE IsUnder(_, _)
IsUnder(x, e) ==
    x = e \/ (x # NULL /\ ParentOf[x] # NULL /\ IsUnder(ParentOf[x], e))

\* How often the current pass made the callback op for entry e.
CallCount(op, e) ==
    Cardinality({i \in 1..Len(calls) : calls[i].op = op /\ calls[i].node = e})

NodeCalls == {"begin_node", "end_node"}

\* A step that ran the deferred function at the head of the queue.
HandlerStep == Len(requests') = Len(requests) /\ queue # <<>>

\* C1: a snapshot rooted at path P makes begin_node and end_node callbacks
\* only for the entry at P and for entries below it, whatever relevance
\* flags an earlier snapshot left on entries outside that subtree.
C1_CallbacksStayUnderRoot ==
    \A i \in 1..Len(calls) :
        calls[i].op \in NodeCalls => IsUnder(calls[i].node, Snapshot.rootRef)

\* C2: whenever a snapshot terminates, with whatever status, snapshot_End
\* has called the formatter's close (if a formatter was obtained), closed
\* both ends of the pipe, resumed tree updates, cleared the running flag and
\* queued the completion callback with that status; the completion callback
\* is never invoked from inside query_TakeSnapshot or snapshot_End, only
\* later from the event loop.
C2_EndCleansUp ==
    [][/\ Len(ends') > Len(ends) =>
            LET e == ends'[Len(ends')]
                q == queue'[Len(queue')]
            IN  /\ Len(ends') = Len(ends) + 1
                /\ e.hadFormatter =>
                      /\ counts'.close = counts.close + 1
                      /\ formatter'.kind = NULL \/ formatter'.monitor = "deleted"
                /\ ~e.hadFormatter => counts'.close = counts.close
                /\ Snapshot'.formatter = NULL
                /\ ~fds'.sink /\ ~fds'.source
                /\ ~updatePaused'
                /\ ~IsRunning'
                /\ queue' # <<>>
                /\ q.fn = "InvokeResultCallback" /\ q.arg = e.status
                /\ delivered' = delivered
       /\ (IsRunning /\ ~IsRunning') => Len(ends') = Len(ends) + 1
       /\ Len(requests') > Len(requests) => delivered' = delivered
       /\ Len(delivered') > Len(delivered) =>
            /\ queue # <<>>
            /\ Head(queue).fn = "InvokeResultCallback"
            /\ delivered'[Len(delivered')].status = Head(queue).arg
            /\ Len(ends') = Len(ends)]_vars

\* A snapshot with a formatter ran to the end, ended with Ok, and its
\* completion callback has been delivered from the event loop.
C2_Witness ==
    /\ ~IsRunning
    /\ \E i \in 1..Len(ends) : ends[i].hadFormatter /\ ends[i].status = "LE_OK"
    /\ \E i \in 1..Len(delivered) : delivered[i].status = "LE_OK"

\* C3: a request rejected because a snapshot is running gets -1 as its
\* stream, leaves the running snapshot's state as it was, and has Busy
\* delivered to the callback and context of the rejected request.
C3_BusyRejection ==
    [][/\ (Len(requests') > Len(requests) /\ IsRunning) =>
            /\ requests'[Len(requests')].stream = -1
            /\ IsRunning' /\ Snapshot' = Snapshot /\ Parents' = Parents
            /\ formatter' = formatter /\ tree' = tree /\ fds' = fds
            /\ updatePaused' = updatePaused
       /\ Len(delivered') > Len(delivered) =>
            LET d == delivered'[Len(delivered')]
            IN  d.status = "LE_BUSY" => d.context = d.req]_vars

\* C4: a formatter that leaves scan set at every end_tree gets exactly
\* MAX_PASSES passes, that is MAX_PASSES start_tree calls, and then the
\* snapshot ends with OutOfRange; a further pass is never started.
C4_TenPassesThenOutOfRange ==
    /\ counts.startTree <= MAX_PASSES
    /\ Snapshot.passes <= MAX_PASSES
    /\ \A i \in 1..Len(ends) :
          (ends[i].status \in {"LE_OK", "LE_OUT_OF_RANGE"} /\ ends[i].scan) =>
              /\ ends[i].status = "LE_OUT_OF_RANGE"
              /\ ends[i].starts = MAX_PASSES
              /\ ends[i].passes = MAX_PASSES

\* The formatter asked for one more pass after the last one allowed.
C4_Witness ==
    \E i \in 1..Len(ends) :
        /\ ends[i].status = "LE_OUT_OF_RANGE"
        /\ ends[i].scan
        /\ ends[i].starts = MAX_PASSES

\* C5: a snapshot ends with OutOfRange if and only if the formatter asked
\* for more than MAX_PASSES passes; a formatter that clears scan at the end
\* of pass MAX_PASSES gets Ok.
C5_OutOfRangeOnlyWhenMoreRequested ==
    \A i \in 1..Len(ends) :
        ends[i].status \in {"LE_OK", "LE_OUT_OF_RANGE"} =>
            (ends[i].status = "LE_OUT_OF_RANGE" <=> ends[i].scan)

C7_RelevanceRule ==
    (IsRunning /\ Len(calls) = 1 /\ calls[1].op = "start_tree") =>
        LET root == Snapshot.rootRef
            F == formatter.filter
            Own(e) ==
                \/ HasBit(F, SNAPSHOT_FILTER_CREATED) /\ tree[e].new
                \/ HasBit(F, SNAPSHOT_FILTER_DELETED) /\ tree[e].deleted
                \/ HasBit(F, SNAPSHOT_FILTER_NORMAL)
                      /\ tree[e].lastMod > Snapshot.since
            Below(e) == \E d \in Subtree(tree, e) \ {e} : tree[d].relevant
        IN  /\ tree[root].relevant
            /\ \A e \in Subtree(tree, root) \ {root} :
                    tree[e].relevant <=> (Own(e) \/ Below(e))

\* The walker's next-state relation.
WalkerStates ==
    {STATE_NODE_BEGIN, STATE_NODE_CHILDREN, STATE_NODE_END,
     STATE_NODE_SIBLING, STATE_TREE_END}

WalkerRelation ==
    {<<STATE_NODE_BEGIN, STATE_NODE_CHILDREN>>,
     <<STATE_NODE_BEGIN, STATE_NODE_END>>,
     <<STATE_NODE_CHILDREN, STATE_NODE_BEGIN>>,
     <<STATE_NODE_END, STATE_NODE_SIBLING>>,
     <<STATE_NODE_SIBLING, STATE_NODE_BEGIN>>,
     <<STATE_NODE_SIBLING, STATE_NODE_END>>,
     <<STATE_NODE_SIBLING, STATE_TREE_END>>,
     <<STATE_TREE_END, STATE_NODE_BEGIN>>}

\* C8: the handler that runs is the one of the walker's state, and the
\* state it leaves is NodeChildren or NodeEnd after NodeBegin, NodeBegin
\* after NodeChildren, NodeSibling after NodeEnd, NodeBegin, NodeEnd or
\* TreeEnd after NodeSibling; TreeEnd starts a new pass at NodeBegin or
\* ends the snapshot.  start_tree is called once, before the first
\* NodeBegin of a pass, and end_tree once, when the walker enters TreeEnd.
C8_WalkerRelation ==
    [][(HandlerStep /\ Head(queue).fn \in WalkerStates) =>
          LET h == Head(queue).fn
              ended == Len(ends') > Len(ends)
              endTree == [op |-> "end_tree", node |-> NULL]
          IN  /\ crashed' = "none"
              /\ h = Snapshot.nextState
              /\ IsRunning
              /\ ~ended => /\ IsRunning'
                           /\ <<h, Snapshot'.nextState>> \in WalkerRelation
                           /\ queue' = Append(Tail(queue),
                                               [fn |-> Snapshot'.nextState,
                                                arg |-> "-",
                                                req |-> counts.current])
              /\ (ended /\ ends'[Len(ends')].status
                              \in {"LE_OK", "LE_OUT_OF_RANGE"})
                    <=> (h = STATE_TREE_END /\ Snapshot'.passes = Snapshot.passes)
              /\ h = STATE_NODE_BEGIN =>
                    calls # <<>> /\ calls[1].op = "start_tree"
              /\ \A i \in 1..Len(calls') :
                    /\ calls'[i].op = "start_tree" <=> i = 1
                    /\ calls'[i].op = "end_tree" => i = Len(calls')
              /\ (h = STATE_NODE_SIBLING
                    /\ Snapshot'.nextState = STATE_TREE_END)
                    <=> (calls' = Append(calls, endTree))
              /\ (h = STATE_TREE_END /\ Snapshot'.passes # Snapshot.passes) =>
                    /\ Snapshot'.passes = Snapshot.passes + 1
                    /\ Snapshot'.nextState = STATE_NODE_BEGIN
                    /\ Snapshot'.nodeRef = Snapshot.rootRef
                    /\ calls' = <<[op |-> "start_tree",
                                   node |-> Snapshot.rootRef]>>]_vars

\* The second pass of a snapshot has walked its nodes and entered TreeEnd.
C8_Witness ==
    /\ IsRunning
    /\ Snapshot.passes = 2
    /\ Snapshot.nextState = STATE_TREE_END
    /\ Len(calls) > 4

\* The callbacks a pass owes the subtree of e: begin_node and end_node
\* around those of its linked children, in insertion order; nothing for an
\* irrelevant entry, and nothing below a deleted one.
RECURSIVE Walk(_, _, _), WalkAll(_, _, _)
Walk(t, e, withZombies) ==
    IF ~t[e].relevant THEN <<>>
    ELSE <<[op |-> "begin_node", node |-> e]>>
         \o (IF t[e].deleted THEN <<>>
             ELSE WalkAll(t, LinkedChildren(t, e, withZombies), withZombies))
         \o <<[op |-> "end_node", node |-> e]>>

WalkAll(t, cs, withZombies) ==
    IF cs = <<>> THEN <<>>
    ELSE Walk(t, Head(cs), withZombies) \o WalkAll(t, Tail(cs), withZombies)

\* e can be walked to from root: it lies under root, every entry on the way
\* down is relevant and not deleted, and the pass links e.
RECURSIVE Reachable(_, _, _, _)
Reachable(t, e, root, withZombies) ==
    \/ e = root
    \/ /\ ParentOf[e] # NULL
       /\ t[e].present
       /\ withZombies \/ ~t[e].deleted
       /\ t[ParentOf[e]].relevant /\ ~t[ParentOf[e]].deleted
       /\ Reachable(t, ParentOf[e], root, withZombies)

OpenTexts == {"{", "\":{"}

Depth(w, k) ==
    Cardinality({i \in 1..k : w[i] \in OpenTexts})
        - Cardinality({i \in 1..k : w[i] = "}"})

\* w is one object: it opens, stays open up to its last piece, and closes
\* with it.
IsOneObject(w) ==
    /\ Len(w) >= 2
    /\ w[1] = "{"
    /\ \A k \in 1..(Len(w) - 1) : Depth(w, k) > 0
    /\ Depth(w, Len(w)) = 0

\* The pieces of text that start a member of an object.
ValueMemberTexts ==
    {TypeText(d) : d \in {"IO_DATA_TYPE_TRIGGER", "IO_DATA_TYPE_BOOLEAN",
                          "IO_DATA_TYPE_NUMERIC", "IO_DATA_TYPE_STRING",
                          "IO_DATA_TYPE_JSON"}}
        \cup {TS_TEXT, MANDATORY_TEXT, NewText(TRUE), NewText(FALSE),
              "\"value\":"}

MemberTexts == ValueMemberTexts \cup {"\"", "\"deleted\":"}

\* A comma stands before a member exactly when the member is not the first
\* of its object, that is when no opening brace stands right before it.
CommaRule(w) ==
    \A i \in 1..Len(w) :
        w[i] \in MemberTexts =>
            LET comma == i > 1 /\ w[i - 1] = ","
                j == IF comma THEN i - 2 ELSE i - 1
            IN  /\ j >= 1
                /\ comma <=> w[j] \notin OpenTexts

\* C10: the text of a JSON snapshot that ended with Ok is the header with
\* the time stamp and the root path up to "upserted":, one object written
\* by a pass with filter Created|Normal, then ,"deleted":, one object
\* written by a pass with filter Deleted, then }; there were exactly two
\* passes, braces balance, and a comma precedes a member exactly when it is
\* not the first member of its object.
C10_JsonDocument ==
    (~IsRunning /\ ends # <<>> /\ ends[Len(ends)].status = "LE_OK") =>
        LET w == written
        IN  /\ ends[Len(ends)].passes = 2
            /\ pass.filters = <<LIVE_FILTERS, SNAPSHOT_FILTER_DELETED>>
            /\ w # <<>>
            /\ w[1] = HeaderText(Snapshot.rootRef)
            /\ w[Len(w)] = "}"
            /\ \E k \in 3..Len(w) :
                  /\ w[k - 1] = "," /\ w[k] = "\"deleted\":"
                  /\ IsOneObject(SubSeq(w, 2, k - 2))
                  /\ IsOneObject(SubSeq(w, k + 1, Len(w) - 1))
            /\ CommaRule(w)

\* The name of the member a piece of text starts.
MemberName(piece) ==
    CASE piece = TS_TEXT -> "ts"
      [] piece = MANDATORY_TEXT -> "mandatory"
      [] piece \in {NewText(TRUE), NewText(FALSE)} -> "new"
      [] piece = "\"value\":" -> "value"
      [] OTHER -> "type"

\* The names of the value members that stand in the text from piece i on,
\* up to the first piece that is neither such a member, a comma nor a value.
RECURSIVE Members(_, _)
Members(w, i) ==
    IF i > Len(w) THEN <<>>
    ELSE IF w[i] \in {",", VALUE_TEXT} THEN Members(w, i + 1)
    ELSE IF w[i] \in ValueMemberTexts
    THEN <<MemberName(w[i])>> \o Members(w, i + 1)
    ELSE <<>>

\* The entry whose object opens with piece i of a snapshot's text.
OpenedEntry(w, i) == IF w[i] = "{" THEN Snapshot.rootRef ELSE w[i - 1]

\* Where the section of deleted entries starts in the text.
DeletedStart(w) ==
    IF \E k \in 1..Len(w) : w[k] = "\"deleted\":"
    THEN CHOOSE k \in 1..Len(w) : w[k] = "\"deleted\":"
    ELSE Len(w) + 1

\* A JSON snapshot has ended with Ok.
JsonDone ==
    /\ ~IsRunning /\ ends # <<>>
    /\ ends[Len(ends)].status = "LE_OK"
    /\ written # <<>>

\* C11: the formatter never dies on a node, and in the text of a completed
\* JSON snapshot the object of an entry holds, in the live pass and for an
\* entry with a Resource that was modified after `since`, the members type,
\* ts, mandatory, new in this order, followed by value exactly when the data
\* type is not Trigger; the object of a namespace, of a resource not
\* modified after `since`, and of any entry in the Deleted pass holds none
\* of them.  Every such resource under the snapshot root has its object.
C11_NodeValueMembers ==
    /\ crashed = "none"
    /\ JsonDone =>
          LET w == written
              owed(e, i) ==
                  /\ i < DeletedStart(w)
                  /\ e \in resources
                  /\ pass.start[e].lastMod > Snapshot.since
          IN  /\ \A i \in 1..Len(w) :
                    w[i] \in OpenTexts =>
                        LET e == OpenedEntry(w, i)
                        IN  Members(w, i + 1) =
                              IF owed(e, i)
                              THEN <<"type", "ts", "mandatory", "new">>
                                   \o (IF harness.types[e]
                                            # "IO_DATA_TYPE_TRIGGER"
                                       THEN <<"value">> ELSE <<>>)
                              ELSE <<>>
              /\ \A j \in 1..Len(w) :
                    w[j] = "\"value\":" => j < Len(w) /\ w[j + 1] = VALUE_TEXT
              /\ \A e \in resources :
                    (owed(e, 0) /\ IsUnder(e, Snapshot.rootRef)
                        /\ \A x \in Entries :
                              IsUnder(e, x) => ~pass.start[x].deleted) =>
                        \E i \in 2..(DeletedStart(w) - 1) :
                            w[i] = "\":{" /\ w[i - 1] = e

\* C12: while the reader keeps its end open, a full pipe does not end the
\* snapshot: a snapshot that started a pass ends with Ok only, with nothing
\* left unsent, the formatter does not die, and every write (from the fd
\* monitor or from the explicit kick) appends to the pipe the next unsent
\* pieces of the buffer, each once and in order.
C12_FullPipeKeepsSnapshot ==
    /\ [](pipe.reader =>
            /\ crashed = "none"
            /\ \A i \in 1..Len(ends) :
                  ends[i].passes >= 1 =>
                     ends[i].status = "LE_OK" /\ formatter.available = 0)
    /\ [][(Len(requests') = Len(requests) /\ written' # written) =>
             LET k == Len(written') - Len(written)
             IN  /\ k > 0 /\ k <= formatter.available
                 /\ written' = written \o SubSeq(formatter.buffer,
                                                 formatter.next + 1,
                                                 formatter.next + k)
                 /\ pipe'.len = pipe.len + k
                 /\ k < formatter.available =>
                       /\ formatter'.buffer = formatter.buffer
                       /\ formatter'.next = formatter.next + k
                       /\ formatter'.available = formatter.available - k]_vars

\* C13: a snapshot whose reader closed its end while it was running ends
\* with Closed; and a stream event that carries an error bit and neither
\* POLLOUT nor POLLHUP ends the snapshot with Fault.
C13_ReaderClosed ==
    /\ []((~pipe.reader /\ ends # <<>>) =>
             ends[Len(ends)].status = "LE_CLOSED")
    /\ [][\A ev \in EventSets :
             (/\ ev # {} /\ ev \cap {"POLLOUT", "POLLHUP"} = {}
              /\ Alive /\ formatter.monitor = "live"
              /\ Set(StreamHandlerStep(Cur, ev, 1))) =>
                /\ Len(ends') = Len(ends) + 1
                /\ ends'[Len(ends')].status = "LE_FAULT"]_vars

EndNodeCalled(e) ==
    calls' = Append(calls, [op |-> "end_node", node |-> e])

\* The new flags a snapshot leaves alone: those of entries outside the
\* subtree of its root.
NewKeptOutsideSubtree ==
    Snapshot.rootRef # NULL =>
        \A e \in Entries :
            ~IsUnder(e, Snapshot.rootRef) =>
                tree[e].new = pass.start[e].new

\* The new member in the text of a completed JSON snapshot shows the flag
\* the entry had when the snapshot started.
NewMemberShowsOldFlag ==
    JsonDone =>
        \A i \in 1..Len(written) :
            written[i] \in OpenTexts =>
                \A j \in (i + 1)..Len(written) :
                    (written[j] \in {NewText(TRUE), NewText(FALSE)}
                        /\ \A k \in (i + 1)..j :
                              written[k] \notin OpenTexts \cup {"}"}) =>
                        written[j]
                          = NewText(pass.start[OpenedEntry(written, i)].new)

\* This step ends a pass that reports deleted entries, in a snapshot
\* requested without FLUSH_DELETIONS.
DeletedPassEnds ==
    /\ IsRunning /\ ~Snapshot.flush
    /\ HasBit(pass.filter, SNAPSHOT_FILTER_DELETED)
    /\ Len(calls') = Len(calls) + 1
    /\ calls'[Len(calls')].op = "end_tree"

\* C15: while deletions are tracked, an entry flagged deleted stays in the
\* tree with its flag through every step that is not a step of a snapshot
\* requested with FLUSH_DELETIONS; and a pass with the Deleted filter of a
\* snapshot requested without FLUSH_DELETIONS makes the begin_node and
\* end_node callbacks for every deleted entry of the snapshot's subtree.
C15_DeletedEntryKept ==
    [][/\ (AreDeletionsTracked /\ AreDeletionsTracked'
           /\ ~(IsRunning /\ Snapshot.flush)) =>
             \A e \in Entries :
                (tree[e].present /\ tree[e].deleted) =>
                   (tree'[e].present /\ tree'[e].deleted)
       /\ DeletedPassEnds =>
             \A e \in Subtree(pass.tree, Snapshot.rootRef) :
                pass.tree[e].deleted =>
                   \A op \in NodeCalls :
                      \E i \in 1..Len(calls') :
                         calls'[i].op = op /\ calls'[i].node = e]_vars

\* snapshot_End runs in this step, with Ok, for a request that carried
\* FLUSH_DELETIONS.
FlushSnapshotEnds ==
    /\ Len(ends') = Len(ends) + 1
    /\ ends'[Len(ends')].status = "LE_OK"
    /\ requests'[ends'[Len(ends')].req].flush

\* The deleted entry e loses a reference in this step that is not the
\* reference of a child destroyed in the step: its deletion record is
\* released.
RecordReleased(e) ==
    /\ tree[e].present /\ tree[e].deleted
    /\ (IF tree'[e].present THEN tree'[e].refs ELSE 0) <
          tree[e].refs - Cardinality({c \in Entries :
                                        /\ ParentOf[c] = e
                                        /\ tree[c].present
                                        /\ ~tree'[c].present})

\* The current pass reports deleted entries and has made its end_node
\* callback for e.
ReportedDeleted(e) ==
    /\ HasBit(pass.filter, SNAPSHOT_FILTER_DELETED)
    /\ CallCount("end_node", e) >= 1

\* C16: when a snapshot requested with FLUSH_DELETIONS ends with Ok, no
\* entry of the tree is flagged deleted any more, wherever it lies; and
\* while such a snapshot runs a deletion record is released only after the
\* Deleted pass has reported its entry.
C16_FlushReleasesAllRecords ==
    [][/\ FlushSnapshotEnds =>
             \A e \in Entries : tree'[e].present => ~tree'[e].deleted
       /\ (IsRunning /\ Snapshot.flush) =>
             \A e \in Entries : RecordReleased(e) => ReportedDeleted(e)]_vars

\* C17: when a snapshot requested with FLUSH_DELETIONS has completed with
\* Ok and nothing was deleted since, the text of a JSON snapshot completed
\* after it holds no "deleted" section.
C17_NoDeletedSectionAfterFlush ==
    (/\ JsonDone
     /\ \E i \in 1..(Len(ends) - 1) :
           /\ ends[i].status = "LE_OK"
           /\ requests[ends[i].req].flush
     /\ requests[ends[Len(ends)].req].format = "QUERY_SNAPSHOT_FORMAT_JSON")
    => \A k \in 1..Len(written) : written[k] # "\"deleted\":"

\* C18: when query_TrackDeletions(false) returns, no entry of the tree is
\* flagged deleted; and a deletion reported while tracking is off sets no
\* deleted flag and adds no reference: the entry only loses the reference
\* its resource held.
C18_TrackingOff ==
    [][/\ (counts.track' # counts.track /\ ~AreDeletionsTracked') =>
             \A e \in Entries : tree'[e].present => ~tree'[e].deleted
       /\ (~AreDeletionsTracked /\ resources' # resources) =>
             \A e \in resources \ resources' :
                /\ ~tree'[e].deleted
                /\ (IF tree'[e].present THEN tree'[e].refs ELSE 0) =
                      tree[e].refs - 1]_vars

\* C19: an entry whose end_node callback is invoked has new = false from
\* then on, so also when the snapshot ends; the new flag changes in no other
\* step, so entries that are not traversed keep it, and entries outside the
\* snapshot subtree keep the flag they had when the snapshot started; the
\* new member emitted for an entry shows the flag as it was before the
\* snapshot cleared it.
C19_NewFlagCleared ==
    /\ [](NewKeptOutsideSubtree /\ NewMemberShowsOldFlag)
    /\ [][\A e \in Entries :
            /\ EndNodeCalled(e) => ~tree'[e].new
            /\ tree'[e].new # tree[e].new =>
                  /\ ~tree'[e].new
                  /\ EndNodeCalled(e)]_vars

\* C20: the dsnap tool exits with code 0 only when the snapshot result is
\* Ok and with a non-zero code for every other result, Busy included, which
\* it also reports as a warning.
C20_ToolExitCode ==
    \A i \in 1..Len(delivered) :
        /\ delivered[i].tool.ret = 0 <=> delivered[i].status = "LE_OK"
        /\ delivered[i].status = "LE_BUSY" =>
              delivered[i].tool.log = "LE_WARN"

\* ------------------------------------------------- data sample properties
\* The last call on the sample was a call of fn.
Called(fn) == sample.type # "none" /\ sample.call.fn = fn

\* The text in the buffer of the last call.
Dest == CString(sample.call.buf, 0)

\* The image a character has in a JSON string: quotation mark and reverse
\* solidus behind a reverse solidus, the short forms of \b \f \n \r \t,
\* \u00XX for every other byte up to 0x1F, itself otherwise.
EscapedImage(ch) ==
    CASE ch[1] \in {34, 92} -> <<92, ch[1]>>
      [] ch[1] = 8 -> <<92, 98>>
      [] ch[1] = 12 -> <<92, 102>>
      [] ch[1] = 10 -> <<92, 110>>
      [] ch[1] = 13 -> <<92, 114>>
      [] ch[1] = 9 -> <<92, 116>>
      [] OTHER -> IF ch[1] <= 31
                  THEN <<92, 117, 48, 48, HexDigit(ch[1] \div 16),
                         HexDigit(ch[1] % 16)>>
                  ELSE ch

\* The characters of a string, in order.
RECURSIVE CharsOf(_)
CharsOf(s) ==
    IF s = <<>> THEN <<>>
    ELSE LET n == le_utf8_NumBytesInChar(s[1])
         IN  <<SubSeq(s, 1, n)>> \o CharsOf(SubSeq(s, n + 1, Len(s)))

\* The images of the first n characters of a string, concatenated.
RECURSIVE EscapedPrefix(_, _)
EscapedPrefix(s, n) ==
    IF n = 0 THEN <<>>
    ELSE EscapedPrefix(s, n - 1) \o EscapedImage(CharsOf(s)[n])

EscapedForm(s) == EscapedPrefix(s, Len(CharsOf(s)))

\* C21: a string that dataSample_StringToJson copied completely is in the
\* destination as the images of its characters, concatenated in order and
\* each image intact: reverse solidus and the character for quotation mark
\* and reverse solidus, the two-byte short forms for \b \f \n \r \t, the six
\* bytes \u00XX for any other byte up to 0x1F, the character itself
\* otherwise.
C21_EscapedImages ==
    (Called("dataSample_StringToJson") /\ sample.call.result = "LE_OK") =>
        Dest = EscapedForm(sample.call.src)

\* C22: dataSample_StringToJson returns LE_OK exactly when the destination
\* holds the whole escaped source and LE_OVERFLOW exactly when it was
\* truncated, and a truncated destination holds the escaped images of a
\* proper prefix of whole source characters.
C22_OkOrTruncated ==
    Called("dataSample_StringToJson") =>
        \/ /\ sample.call.result = "LE_OK"
           /\ Dest = EscapedForm(sample.call.src)
        \/ /\ sample.call.result = "LE_OVERFLOW"
           /\ \E n \in 0..(Len(CharsOf(sample.call.src)) - 1) :
                  Dest = EscapedPrefix(sample.call.src, n)

\* C23: for every string s whose escaped form fits the buffer,
\* dataSample_ConvertToJson of a String sample holding s followed by
\* dataSample_JsonToString of the text it produced, into a buffer that has
\* room for it, returns LE_OK and exactly s.
C23_RoundTrip ==
    (/\ Called("dataSample_JsonToString")
     /\ sample.call.trip
     /\ sample.call.size > Len(sample.call.src)) =>
        /\ sample.call.result = "LE_OK"
        /\ Dest = sample.value

\* The last call was dataSample_JsonToString on a string that fits the
\* buffer; Quoted(first, last) tells at which ends the string has a
\* quotation mark.
Unescaped == Called("dataSample_JsonToString")
             /\ sample.call.size > Len(sample.call.src)

Quoted(first, last) ==
    /\ Len(sample.call.src) >= 1
    /\ (Head(sample.call.src) = 34) = first
    /\ (sample.call.src[Len(sample.call.src)] = 34) = last

\* C24: dataSample_JsonToString returns LE_FORMAT_ERROR for every input
\* that has a quotation mark at exactly one end and for the input that is a
\* single quotation mark; it strips the outer quotation marks and unescapes
\* only when both ends are quotation marks, and copies the input unchanged
\* only when neither end is one.
C24_QuotedAtBothEndsOrNone ==
    Unescaped =>
        /\ (Quoted(TRUE, FALSE) \/ Quoted(FALSE, TRUE)
            \/ sample.call.src = <<34>>) =>
               sample.call.result = "LE_FORMAT_ERROR"
        /\ Quoted(FALSE, FALSE) =>
               sample.call.result = "LE_OK" /\ Dest = sample.call.src
        /\ (sample.call.result = "LE_OK" /\ Dest # sample.call.src) =>
               (Quoted(TRUE, TRUE) /\ Len(sample.call.src) >= 2)

\* The text dataSample_ConvertToString prints for the sample when the
\* buffer is large, if it prints one for it.
Printable ==
    dataSample_ConvertToString(sample, 0, NewBuffer(2 * MaxSize), 2 * MaxSize)

\* C25: for each of the five data types, dataSample_ConvertToString returns
\* LE_OK when the printable value and its terminator fit the buffer, and
\* LE_OVERFLOW, never another code, when the buffer is too small for them
\* (calls that read no byte outside the sample's string).
C25_OkOrOverflow ==
    (/\ Called("dataSample_ConvertToString")
     /\ ~sample.call.ub
     /\ Printable.result = "LE_OK") =>
        sample.call.result =
            IF Len(CString(Printable.buf, 0)) + 1 <= sample.call.size
            THEN "LE_OK" ELSE "LE_OVERFLOW"

\* C26: every sample dataSample_ExtractJson returns carries the timestamp
\* of the JSON sample it was extracted from, for each JSON type of the
\* extracted member and for every timestamp the original has, and the
\* original is not modified.
C26_ExtractKeepsTimestamp ==
    (Called("dataSample_ExtractJson") /\ sample.call.found) =>
        /\ sample.call.extracted.timestamp = sample.call.original.timestamp
        /\ sample.call.original = [type |-> sample.type,
                                   value |-> sample.value,
                                   timestamp |-> sample.timestamp]

\* ----------------------------------------------------- resource properties
\* The step is a call of fn on the resources.
HubCall(fn) == hub'.ops = hub.ops + 1 /\ hub'.last.fn = fn

\* The resources that feed p over one or more routes.
RECURSIVE Feeding(_, _)
Feeding(S, n) ==
    IF n = 0 THEN S
    ELSE Feeding(S \cup ({hub.res[q].source : q \in S} \ {NULL}), n - 1)

Feeders(p) ==
    IF hub.res[p].source = NULL THEN {}
    ELSE Feeding({hub.res[p].source}, Cardinality(HubPaths))

NoRouteLoop == \A p \in HubPaths : p \notin Feeders(p)

\* C27: after any sequence of res_SetSource calls, clears included, the
\* routes form no directed cycle; a call that would make the destination
\* reachable upstream of the source returns LE_DUPLICATE and leaves every
\* source link unchanged, the other calls return LE_OK, and a call that
\* sets a route that exists changes nothing.
C27_NoRouteLoop ==
    /\ []NoRouteLoop
    /\ [][HubCall("res_SetSource") =>
            LET dest == hub'.last.path
                src == hub'.last.src
                loop == src # NULL /\ hub.res[dest].source # src
                        /\ (dest = src \/ dest \in Feeders(src))
            IN  /\ hub'.last.ret = IF loop THEN "LE_DUPLICATE" ELSE "LE_OK"
                /\ loop => hub'.res = hub.res
                /\ (src # NULL /\ hub.res[dest].source = src) =>
                       hub'.res = hub.res]_vars

\* A route from /x to /y to /z exists and the route that would close the
\* loop has been refused.
C27_Witness ==
    /\ hub.last.fn = "res_SetSource"
    /\ hub.last.ret = "LE_DUPLICATE"
    /\ hub.last.src # hub.last.path
    /\ hub.res[hub.last.src].source \notin {NULL, hub.last.path}

\* C28: creating an Input or Output at a path that holds a resource of the
\* same variant, data type and units returns LE_OK and leaves that one
\* resource there; creating it with another variant, another data type or
\* other units returns LE_DUPLICATE; either way nothing changes and the
\* tree-change handler is not called.
C28_IdempotentCreation ==
    [][(HubCall("io_Create")
        /\ hub.res[hub'.last.path].variant \in IoVariants) =>
          LET r == hub.res[hub'.last.path]
              same == /\ r.variant = hub'.last.variant
                      /\ r.type = hub'.last.type
                      /\ r.units = hub'.last.units
          IN  /\ hub'.last.ret = IF same THEN "LE_OK" ELSE "LE_DUPLICATE"
              /\ hub'.res = hub.res
              /\ hub'.added = hub.added
              /\ hub'.removed = hub.removed]_vars

\* An Output has been created a second time with other units.
C28_Witness ==
    /\ hub.last.fn = "io_Create"
    /\ hub.last.ret = "LE_DUPLICATE"
    /\ hub.res[hub.last.path].variant = hub.last.variant
    /\ hub.res[hub.last.path].type = hub.last.type
    /\ hub.res[hub.last.path].units # hub.last.units

\* The tree-change handler has been told of one addition for every Input
\* or Output there is, and of one addition and one removal for every one
\* there was.
NotifiedOnce ==
    \A p \in HubPaths :
        hub.added[p] - hub.removed[p] =
            IF hub.res[p].variant \in IoVariants THEN 1 ELSE 0

\* C29: deleting an Input or Output to which admin settings were applied
\* turns its entry into a Placeholder that keeps the settings; deleting one
\* without admin settings removes the entry; deleting it a second time
\* changes nothing; the tree-change handler is notified of exactly one
\* addition and one removal per resource.
C29_DeletionKeepsSettings ==
    /\ []NotifiedOnce
    /\ [][HubCall("io_DeleteResource") =>
            LET p == hub'.last.path
                r == hub.res[p]
            IN  /\ \A q \in HubPaths \ {p} : hub'.res[q] = hub.res[q]
                /\ hub'.added = hub.added
                /\ IF r.variant \in IoVariants
                   THEN /\ hub'.removed[p] = hub.removed[p] + 1
                        /\ hub'.res[p] =
                             IF r.source # NULL \/ r.override # NULL
                                \/ r.default # NULL
                                \/ \E q \in HubPaths : hub.res[q].source = p
                             THEN [NoResource EXCEPT
                                      !.variant = "ADMIN_ENTRY_TYPE_PLACEHOLDER",
                                      !.source = r.source,
                                      !.override = r.override,
                                      !.default = r.default]
                             ELSE NoResource
                   ELSE hub'.removed = hub.removed /\ hub'.res = hub.res]_vars

\* An Input with a default has been deleted and is a Placeholder with that
\* default, also after the last call, which deleted it once more.
C29_Witness ==
    /\ hub.last.fn = "io_DeleteResource"
    /\ hub.res[hub.last.path].variant = "ADMIN_ENTRY_TYPE_PLACEHOLDER"
    /\ hub.res[hub.last.path].default # NULL
    /\ hub.added[hub.last.path] = 1
    /\ hub.removed[hub.last.path] = 1
    /\ hub.ops >= 3
    /\ hub.res["/a"].variant = "ADMIN_ENTRY_TYPE_PLACEHOLDER"
    /\ hub.last.path = "/a"

\* The setting of the last call has another type than the Input or Output
\* it was set on.
Mismatched(fn) ==
    /\ hub'.last.fn = fn
    /\ hub'.last.type # NULL
    /\ hub.res[hub'.last.path].variant \in IoVariants
    /\ hub'.last.type # hub.res[hub'.last.path].type

\* C30: an override or default whose recorded type differs from the
\* declared type of the Input or Output it is set on is retained but
\* inactive: it remains stored on the resource, so that it counts as an
\* admin setting and res_IsOverridden or res_HasDefault report it, and it
\* never replaces a pushed value and is never emitted as a default.
C30_RetainedButInactive ==
    /\ [](\A p \in HubPaths :
            (hub.res[p].variant \in IoVariants
             /\ hub.res[p].override # hub.res[p].type) =>
                hub.res[p].current # "override")
    /\ [][/\ (HubCall("res_SetOverride") /\ Mismatched("res_SetOverride")) =>
               /\ hub'.res[hub'.last.path].override = hub'.last.type
               /\ res_IsOverridden(hub', hub'.last.path)
               /\ res_HasAdminSettings(hub', hub'.last.path)
          /\ (HubCall("res_SetDefault") /\ Mismatched("res_SetDefault")) =>
               /\ hub'.res[hub'.last.path].default = hub'.last.type
               /\ res_HasDefault(hub', hub'.last.path)
               /\ res_HasAdminSettings(hub', hub'.last.path)
          /\ (HubCall("io_AddPushHandler")
              /\ hub.res[hub'.last.path].variant \in IoVariants
              /\ hub.res[hub'.last.path].default
                   # hub.res[hub'.last.path].type) =>
               hub'.last.received # "default"]_vars

\* C40: dataSample_StringToJson never writes to an index of destStr that is
\* destSize or more and always leaves destStr NUL-terminated within
\* destSize bytes, for every source string and every destSize > 0, also
\* when a control character with a \u00XX image is the last character
\* accepted before the buffer is full.
C40_WritesInsideBuffer ==
    Called("dataSample_StringToJson") =>
        /\ ~sample.call.buf.oob
        /\ \E k \in DOMAIN sample.call.buf.mem : sample.call.buf.mem[k] = 0

\* ------------------------------------------- observation properties
\* The Observation was set to minPeriod 1.0 and changeBy 0.5 before the
\* first push and has then been pushed (0, 10.0), (0.5, 11.0), (1.5, 11.2)
\* and (2.6, 11.8) in this order.
Throttled ==
    /\ hub.obs.minPeriod = 10
    /\ hub.obs.changeBy = 5
    /\ hub.steady
    /\ hub.pushed = <<[ts |-> 0, value |-> 100], [ts |-> 5, value |-> 110],
                      [ts |-> 15, value |-> 112], [ts |-> 26, value |-> 118]>>

C32_ValueStepsHaveSample ==
    (/\ Alive /\ IsRunning /\ Snapshot.nodeRef # NULL
     /\ formatter.nextState \in {STATE_NODE_VALUES, STATE_NODE_VALUE_BODY})
    => resTree_GetCurrentValue(Cur, Snapshot.nodeRef) # NULL

\* ------------------------------------------------ parent stack properties
\* The ancestors of n up to the snapshot root e, nearest first; none for
\* the root itself and for a node outside its subtree.
RECURSIVE AncestorsUpTo(_, _)
AncestorsUpTo(n, e) ==
    IF n = e \/ ~IsUnder(n, e) THEN <<>>
    ELSE <<ParentOf[n]>> \o AncestorsUpTo(ParentOf[n], e)

\* C36: the parent stack is empty at the start of every snapshot and of
\* every pass, and while a snapshot runs it holds exactly the ancestors of
\* the current node from the snapshot root downwards (none once the walk
\* has left the last node), also in a snapshot that follows one ended
\* early with Closed or Fault; so TreeEnd finds no parent left and
\* NodeSibling never pops a parent pushed by an earlier snapshot.
C36_ParentStack ==
    (Alive /\ IsRunning) =>
        Parents = IF Snapshot.nodeRef = NULL THEN <<>>
                  ELSE AncestorsUpTo(Snapshot.nodeRef, Snapshot.rootRef)

\* --------------------------------------------------- callback properties
\* How often the completion callback of request id has been invoked (the
\* context of a request is its number).
Invocations(id) ==
    Cardinality({i \in 1..Len(delivered) : delivered[i].context = id})

\* C33: for every query_TakeSnapshot call, accepted or rejected, the
\* completion callback supplied with that call is invoked exactly once:
\* never twice, and once when nothing is running or queued any more, under
\* every interleaving of stream events, send kicks, walker steps and
\* further requests.
C33_CallbackOncePerCall ==
    \A id \in 1..Len(requests) :
        /\ Invocations(id) <= 1
        /\ (Alive /\ ~IsRunning /\ queue = <<>>) => Invocations(id) = 1

\* C34: the final status of a snapshot is delivered to the callback and
\* context supplied with that snapshot's own request, also when another
\* query_TakeSnapshot call is made after snapshot_End has run and before
\* the deferred result callback executes.
C34_StatusToOwnRequest ==
    \A i \in 1..Len(delivered) :
        delivered[i].status # "LE_BUSY" =>
            delivered[i].context = delivered[i].req

\* ------------------------------------------------- stale step properties
\* The deferred functions other than the result callback that wait in the
\* event loop's queue: walker steps and explicit sends.
QueuedSteps ==
    {i \in 1..Len(queue) : queue[i].fn # "InvokeResultCallback"}

\* C35: once snapshot_End has run for a snapshot, no walker step and no
\* formatter send handler queued before the end is left to execute: no
\* step uses the cleared formatter pointer or the deleted fd monitor, no
\* step queued by one snapshot acts on a later one, and snapshot_End is
\* not run a second time for the same snapshot.
C35_NoStepAfterEnd ==
    /\ crashed \notin {"null dereference", "invalid monitor"}
    /\ (Alive /\ ~IsRunning) => QueuedSteps = {}
    /\ \A i \in QueuedSteps : queue[i].req = counts.current
    /\ \A i, j \in 1..Len(ends) : ends[i].req = ends[j].req => i = j

\* --------------------------------------------------- tracking properties
\* The entries the walker refers to: current node, snapshot root and the
\* parents on the stack.
WalkerRefs ==
    ({Snapshot.nodeRef, Snapshot.rootRef}
        \cup {Parents[i] : i \in 1..Len(Parents)}) \ {NULL}

\* C38: if query_TrackDeletions(false) is called, or a deletion is
\* recorded, between two deferred steps of a running snapshot, no entry
\* the walker refers to (current node, snapshot root, parents on the
\* stack) is released while the walker still uses it, the tree stays
\* update-paused until the snapshot ends, and the assertion in
\* NodeChildren that the node still has a first child holds.
C38_WalkerKeepsItsEntries ==
    /\ crashed # "assertion failed"
    /\ (Alive /\ IsRunning) =>
          /\ updatePaused
          /\ \A e \in WalkerRefs : tree[e].present

\* ------------------------------------------------- live value properties
\* C39: for each resource node the JSON formatter emits, the type, ts and
\* value members describe the same data sample: the sample NodeValueBody
\* renders as the value is the one whose type and time stamp NodeValues
\* emitted just before for that node, also when a push to the resource
\* is accepted between the two steps.
C39_MembersOfOneSample ==
    \A j \in 1..Len(sample.seen) :
        sample.seen[j].step = "NodeValueBody" =>
            /\ j > 1
            /\ sample.seen[j - 1].step = "NodeValues"
            /\ sample.seen[j - 1].node = sample.seen[j].node
            /\ sample.seen[j - 1].ts = sample.seen[j].ts

\* -------------------------------------------------- termination properties
\* C37: every accepted snapshot eventually terminates provided the reader
\* keeps draining the pipe or closes it: while the process lives a running
\* snapshot is eventually ended, and the formatter never waits for a drain
\* (POLLOUT enabled) while zero bytes are buffered, for every current
\* value, a JSON value whose text is empty included.
C37_Terminates ==
    /\ [](formatter.pollout => formatter.available > 0)
    /\ (IsRunning ~> (~IsRunning \/ ~Alive))

=============================================================================
